---- MODULE Spec2Model ----
(***************************************************************************)
(* pgbenchmark: the metrics collector, the Sequential scheduler            *)
(* (SingleThreadBenchmark) and the Concurrent scheduler (AsyncBenchmark),  *)
(* as state machines.                                                      *)
(*                                                                         *)
(* Python lists are objects with identity: `heap` holds every list ever    *)
(* allocated and a list-valued field holds an index into it, so that two   *)
(* fields naming the same list see each other's appends.                   *)
(***************************************************************************)
EXTENDS Integers, Sequences, FiniteSets, TLC

\* ---------------------------------------------------------------- bounds
MaxRuns == 2          \* number_of_runs ranges over 1..MaxRuns
MaxWarmup == 1        \* warmup_runs ranges over 0..MaxWarmup
MaxRetry == 2         \* retry_on_error ranges over 0..MaxRetry
MaxConcurrency == 2   \* AsyncBenchmark.concurrency ranges over 1..MaxConcurrency
MaxRunCalls == 2      \* run() calls on one scheduler instance
MaxClock == 4         \* collector driver: datetime.now() reads
MaxLists == 2         \* collector driver: list objects allocated
MaxExecs == 2         \* collector driver: records in one list
MaxProcesses == 3     \* ParallelBenchmark.num_processes ranges over 1..MaxProcesses
MaxDistRuns == 9      \* work distribution alone: number_of_runs in 1..MaxDistRuns
MaxDistWarmup == 4    \* work distribution alone: warmup_runs in 0..MaxDistWarmup
MaxDistProcesses == 4 \* work distribution alone: num_processes in 1..MaxDistProcesses
MaxWith == 2          \* get_connection: with statements executed one after the other
MaxStatExecs == 3     \* a collector holds at most MaxStatExecs timed executions
MaxElapsed == 2       \* end() comes at most MaxElapsed seconds after start()
MaxStressConcurrency == 12 \* stress: concurrent_connections in 1..MaxStressConcurrency
MaxSustained == 2     \* stress: passes of the sustained loop
MaxHooks == 2         \* hooks registered with add_pre_hook
MaxSamples == 2       \* samples in the log before the monitor sleeps on
MaxStressCalls == 2   \* run() calls on one StressBenchmark
MaxPostHooks == 1      \* hooks registered with add_post_hook

\* ------------------------------------------------------------- constants
\* get_connection(retry_attempts=3)
retry_attempts == 3
\* Optional[datetime] = None
None == -1

VARIABLES
    clock,          \* the value datetime.now() returns; time passes between the calls
                    \* of a collector's start() and end(), and after them
    heap,           \* the list objects: heap[id] is the content of list id
    mc,             \* the MetricsCollector object in use
    result,         \* the BenchmarkResult last returned (NoResult before)
    lastCall,       \* collector driver: the last call and whether it raised
    lifecycle,      \* collector driver: idle / collecting / finalized, by the calls made
    strategy,       \* "sequential" | "concurrent" | "none" (collector driver)
    config,         \* the BenchmarkConfig
    concurrency,    \* AsyncBenchmark.concurrency
    _is_running,    \* the scheduler's _is_running flag
    pc,             \* the position of run()
    i,              \* Sequential: the warmup loop index; Concurrent: first index of the warmup batch
    run_id,         \* Sequential: the measured loop index; Concurrent: batch_start
    ex,             \* Sequential: the locals of the current (or last) _execute_single_query call
    tasks,          \* Concurrent: the coroutines of the batch in flight, in creation order
    outcome,        \* how the last run() ended: "none" | "returned" | "raised"
    raisedBy,       \* the exception that left run(), "None" if none
    runs,           \* run() calls made on this instance
    executed,       \* the _execute_* calls completed in the current run, by kind
    num_processes,  \* ParallelBenchmark.num_processes (after min with cpu_count)
    work_distribution, \* Process-Parallel: the work items, one per worker
    workers,        \* Process-Parallel: the worker processes, by work item
    result_queue,   \* Process-Parallel, iter_results: the mp.Queue
    all_executions, \* Process-Parallel, iter_results: the records the parent has received
    gen,            \* get_connection: the generator behind one `with` statement
    pool,           \* get_connection: the connection pool
    _sql_query,     \* the scheduler's stored query
    _sql_params,    \* the scheduler's stored parameters
    _pre_hooks,     \* BaseBenchmark._pre_hooks: what each hook does when called
    _post_hooks,    \* BaseBenchmark._post_hooks: the post-execution hooks registered
    hook_calls,     \* the hooks the last _execute_hooks call has called, in order
    stress,         \* the StressBenchmark and the position of its run()
    formatter       \* the SQLFormatter and its last format() call

collVars == <<clock, heap, mc, result>>
driverVars == <<lastCall, lifecycle>>
schedVars == <<strategy, config, concurrency, _is_running, pc, i, run_id, ex, tasks,
               outcome, raisedBy, runs, executed>>
parVars == <<num_processes, work_distribution, workers, result_queue, all_executions>>
connVars == <<gen, pool>>
appVars == <<_sql_query, _sql_params, _pre_hooks, _post_hooks, hook_calls, stress, formatter>>
extVars == <<num_processes, work_distribution, workers, result_queue, all_executions,
             gen, pool, _sql_query, _sql_params, _pre_hooks, _post_hooks, hook_calls, stress,
             formatter>>
vars == <<clock, heap, mc, result, lastCall, lifecycle, strategy, config, concurrency,
          _is_running, pc, i, run_id, ex, tasks, outcome, raisedBy, runs, executed,
          num_processes, work_distribution, workers, result_queue, all_executions,
          gen, pool, _sql_query, _sql_params, _pre_hooks, _post_hooks, hook_calls, stress,
             formatter>>

\* ============================================================ core/metrics.py

\* QueryExecution(run_id, start_time, end_time, duration, success, error)
QueryExecution(rid, st, et, ok, err) ==
    [run_id |-> rid, start_time |-> st, end_time |-> et, success |-> ok, error |-> err]

\* MetricsCollector.__init__: executions is the (new, empty) list `lst`
MetricsCollector(lst) ==
    [executions |-> lst, _start_time |-> None, _end_time |-> None, _is_collecting |-> FALSE]

\* `[]`: a new empty list object is appended to the heap; its id is the new length
NewList(h) == Append(h, <<>>)

\* MetricsCollector.start
start(c, now) == [c EXCEPT !._start_time = now, !._is_collecting = TRUE]

\* MetricsCollector.end
end(c, now) == [c EXCEPT !._end_time = now, !._is_collecting = FALSE]

\* add_execution without its guard
add_execution_raises_nocheck(c) == FALSE
\* MetricsCollector.add_execution: the guard
add_execution_raises(c) == ~c._is_collecting

\* MetricsCollector.add_execution: self.executions.append(execution), in place
add_execution(c, h, e) == [h EXCEPT ![c.executions] = Append(@, e)]

\* MetricsCollector.get_result: the guard
get_result_raises(c) == c._start_time = None \/ c._end_time = None

\* MetricsCollector.get_result: BenchmarkResult(executions=self.executions, ...):
\* the result holds the collector's own list, not a copy
get_result(c, h) ==
    LET l == h[c.executions] IN
    [executions |-> c.executions,
     total_runs |-> Len(l),
     successful_runs |-> Cardinality({k \in DOMAIN l : l[k].success}),
     failed_runs |-> Cardinality({k \in DOMAIN l : ~l[k].success}),
     start_time |-> c._start_time,
     end_time |-> c._end_time]

\* get_current_stats counting every record as failed
get_current_stats_all_failed(c, h) ==
    LET l == h[c.executions] IN
    [total_runs |-> Len(l),
     successful_runs |-> Cardinality({k \in DOMAIN l : l[k].success}),
     failed_runs |-> Len(l),
     is_collecting |-> c._is_collecting]
\* MetricsCollector.get_current_stats: the counts and the flag of the dict returned
get_current_stats(c, h) ==
    LET l == h[c.executions] IN
    [total_runs |-> Len(l),
     successful_runs |-> Cardinality({k \in DOMAIN l : l[k].success}),
     failed_runs |-> Cardinality({k \in DOMAIN l : ~l[k].success}),
     is_collecting |-> c._is_collecting]

\* MetricsCollector.reset: self.executions = [] binds a new list `lst`
reset(c, lst) ==
    [executions |-> lst, _start_time |-> None, _end_time |-> None, _is_collecting |-> FALSE]

NoResult == [executions |-> 0]
NoneExecuted == [warmup |-> 0, measured |-> 0]
NoCollector == [executions |-> 0, _start_time |-> None, _end_time |-> None,
                _is_collecting |-> FALSE]
NoExecution == [status |-> "none", warmup |-> FALSE, run_id |-> 0, start_time |-> None,
                success |-> FALSE, error |-> "None", retry_count |-> 0,
                hist |-> <<>>, db |-> "none"]

\* the generator of one `with get_connection()` statement: pc is where it stands,
\* attempt its loop index, conn the connection it holds (0: none), thrown whether
\* the body's exception was thrown into it, yields the connections it has yielded,
\* sleeps the loop indices after which it slept, exit how the with statement ended
\* for the caller ("none": it has not), withs the with statements entered so far
NoGenerator == [pc |-> "none", kind |-> "pool", attempt |-> 0, conn |-> 0,
                thrown |-> FALSE, yields |-> <<>>, sleeps |-> <<>>, exit |-> "none",
                withs |-> 0]
\* the pool: out are the connections checked out, taken counts getconn() calls that
\* returned a connection, returned lists the connections put back, checked are the
\* connections whose SELECT 1 succeeded
NoPool == [out |-> {}, taken |-> 0, returned |-> <<>>, checked |-> {}]
\* _execute_hooks has not been called: hooks is the list it was called with, called
\* the hooks it called, by position; post_called is the post-execution hooks the
\* execution called, by position
NoHookCalls == [hooks |-> <<>>, called |-> <<>>, post_called |-> <<>>]
\* the StressBenchmark: before is the caller's BenchmarkConfig when run() was
\* called, iterations counts the passes of the sustained loop, step is the ramp-up
\* loop index, log the Process-Parallel runs of the steps, raised the exception
\* that left run(); _stop_event is the shared flag, _resource_data the sample log,
\* threads the monitor threads ever started, _monitor_thread the index of the
\* last one (0: None), calls the number of run() calls, open_managers the number
\* of ConnectionManagers the sustained loop has created and not closed
NoStress == [test_type |-> "none", concurrent_connections |-> 0, cpu_count |-> 0,
             _is_running |-> FALSE, pc |-> "none", before |-> [number_of_runs |-> 0],
             iterations |-> 0, step |-> 0, log |-> <<>>, raised |-> "None",
             monitor_resources |-> FALSE, _stop_event |-> FALSE, _resource_data |-> <<>>,
             _monitor_thread |-> 0, threads |-> <<>>, calls |-> 0, open_managers |-> 0]
\* SQLFormatter(): no generator, no static parameter; last is the last format()
\* call: the params it was given, the generators and static parameters of that
\* moment, the generators it invoked, the context it rendered the template with
NoFormatter == [generators |-> <<>>, static_params |-> <<>>, last |-> [op |-> "none"]]

\* no Process-Parallel benchmark and no `with get_connection()` statement in use
ParallelIdle ==
    /\ num_processes = 1
    /\ work_distribution = <<>>
    /\ workers = <<>>
    /\ result_queue = <<>>
    /\ all_executions = <<>>

ConnectionIdle ==
    /\ gen = NoGenerator
    /\ pool = NoPool

\* no StressBenchmark; the scheduler after construction and set_sql("SELECT 1"):
\* a query is stored, no hook is registered
AppIdle ==
    /\ _sql_query = "SELECT 1"
    /\ _sql_params = "{}"
    /\ _pre_hooks = <<>>
    /\ _post_hooks = <<>>
    /\ hook_calls = NoHookCalls
    /\ stress = NoStress
    /\ formatter = NoFormatter

\* ------------------------------------------- the collector driven by a caller
SchedulerIdle ==
    /\ strategy = "none"
    /\ config = [number_of_runs |-> 1, warmup_runs |-> 0, retry_on_error |-> 0,
                 timeout |-> None, batch_size |-> None]
    /\ ParallelIdle
    /\ ConnectionIdle
    /\ AppIdle
    /\ concurrency = 1
    /\ _is_running = FALSE
    /\ pc = "idle"
    /\ i = 0
    /\ run_id = 0
    /\ ex = NoExecution
    /\ tasks = <<>>
    /\ outcome = "none"
    /\ raisedBy = "None"
    /\ runs = 0
    /\ executed = NoneExecuted

\* the lifecycle state the fields of collector c stand for
state_of(c) ==
    IF c._is_collecting THEN "collecting"
    ELSE IF c._start_time # None /\ c._end_time # None THEN "finalized"
    ELSE "idle"

InitCollector ==
    /\ clock = 0
    /\ heap = <<<<>>>>
    /\ mc = MetricsCollector(1)
    /\ result = NoResult
    /\ lastCall = [op |-> "init", raised |-> FALSE]
    /\ lifecycle = "idle"
    /\ SchedulerIdle

\* start(); the call is kept with the collector it was made on
Call_start ==
    /\ clock < MaxClock
    /\ mc' = start(mc, clock)
    /\ clock' = clock + 1
    /\ lastCall' = [op |-> "start", raised |-> FALSE, on |-> mc]
    /\ lifecycle' = "collecting"
    /\ UNCHANGED <<heap, result, schedVars>>
    /\ UNCHANGED extVars

\* end(); the call is kept with the collector it was made on
Call_end ==
    /\ clock < MaxClock
    /\ mc' = end(mc, clock)
    /\ clock' = clock + 1
    /\ lastCall' = [op |-> "end", raised |-> FALSE, on |-> mc]
    /\ lifecycle' = IF lifecycle = "collecting" THEN "finalized" ELSE lifecycle
    /\ UNCHANGED <<heap, result, schedVars>>
    /\ UNCHANGED extVars

Call_add_execution ==
    \E ok \in BOOLEAN :
        LET e == QueryExecution(Len(heap[mc.executions]), 0, 0, ok,
                                IF ok THEN "None" ELSE "error") IN
        /\ Len(heap[mc.executions]) < MaxExecs
        /\ IF add_execution_raises(mc)
              THEN /\ lastCall' = [op |-> "add_execution", raised |-> TRUE]
                   /\ UNCHANGED heap
              ELSE /\ lastCall' = [op |-> "add_execution", raised |-> FALSE]
                   /\ heap' = add_execution(mc, heap, e)
        /\ UNCHANGED <<clock, mc, result, lifecycle, schedVars>>
        /\ UNCHANGED extVars

Call_get_result ==
    /\ IF get_result_raises(mc)
          THEN /\ lastCall' = [op |-> "get_result", raised |-> TRUE]
               /\ UNCHANGED result
          ELSE /\ lastCall' = [op |-> "get_result", raised |-> FALSE]
               /\ result' = get_result(mc, heap)
    /\ UNCHANGED <<clock, heap, mc, lifecycle, schedVars>>
    /\ UNCHANGED extVars

Call_reset ==
    /\ Len(heap) < MaxLists
    /\ heap' = NewList(heap)
    /\ mc' = reset(mc, Len(heap) + 1)
    /\ lastCall' = [op |-> "reset", raised |-> FALSE]
    /\ lifecycle' = "idle"
    /\ UNCHANGED <<clock, result, schedVars>>
    /\ UNCHANGED extVars

\* get_current_stats has no raise statement and assigns no attribute; the dict it
\* returns is kept with the call
Call_get_current_stats ==
    /\ lastCall' = [op |-> "get_current_stats", raised |-> FALSE,
                    value |-> get_current_stats(mc, heap)]
    /\ UNCHANGED <<clock, heap, mc, result, lifecycle, schedVars>>
    /\ UNCHANGED extVars

NextCollector ==
    \/ Call_start
    \/ Call_end
    \/ Call_add_execution
    \/ Call_get_result
    \/ Call_reset
    \/ Call_get_current_stats

SpecCollector == InitCollector /\ [][NextCollector]_vars


\* ============================================================== core/base.py

\* a validation that looks at number_of_runs only
validate_raises_runs_only(cfg) == cfg.number_of_runs < 1
\* BenchmarkConfig.validate: TRUE when it raises
validate_raises(cfg) ==
    \/ cfg.number_of_runs < 1
    \/ cfg.warmup_runs < 0
    \/ (cfg.timeout # None /\ cfg.timeout <= 0)
    \/ cfg.retry_on_error < 0
    \/ (cfg.batch_size # None /\ cfg.batch_size <= 0)

\* the configurations the schedulers are run with: the ones validate accepts,
\* timeout and batch_size left at their default
Configs ==
    {cfg \in [number_of_runs : 0..MaxRuns, warmup_runs : 0..MaxWarmup,
              retry_on_error : 0..MaxRetry, timeout : {None}, batch_size : {None}] :
        ~validate_raises(cfg)}

\* ======================================================== core/connection.py

\* ConnectionManager.get_connection used as `with get_connection() as conn: <body>`.
\* acq[a]: whether acquisition attempt a (getconn and the SELECT 1 health check, or
\* the closed-check of the single connection) succeeds; body: how the with-body ends.
\* The generator's for loop from `attempt` on; thrown: the body's exception has been
\* thrown into the generator at its yield (contextlib's __exit__) and was caught by
\* `except Exception`.  The result is what the with statement does in the caller:
\* it completes ("None") or raises, and whether the body ran.
RECURSIVE get_connection_from(_, _, _, _)
get_connection_from(attempt, acq, body, thrown) ==
    IF attempt >= retry_attempts
    THEN \* raise BenchmarkConnectionError("All connection attempts failed")
         [raised |-> "ConnectionError", bodyRan |-> thrown]
    ELSE IF ~acq[attempt]
    THEN \* acquisition raised inside the try: caught, sleep, next attempt
         get_connection_from(attempt + 1, acq, body, thrown)
    ELSE IF thrown
    THEN \* a second yield after throw(): contextlib raises RuntimeError
         [raised |-> "RuntimeError", bodyRan |-> TRUE]
    ELSE IF body = "ok"
    THEN \* the generator resumes after the yield and returns
         [raised |-> "None", bodyRan |-> TRUE]
    ELSE \* the body's exception is raised at the yield and caught by `except Exception`
         get_connection_from(attempt + 1, acq, body, TRUE)

get_connection(acq, body) == get_connection_from(0, acq, body, FALSE)

Acquisitions == [0..(retry_attempts - 1) -> BOOLEAN]

\* ------------------------------------------- get_connection, step by step

InitConnection ==
    /\ strategy = "none"
    /\ config = [number_of_runs |-> 1, warmup_runs |-> 0, retry_on_error |-> 0,
                 timeout |-> None, batch_size |-> None]
    /\ num_processes = 1
    /\ work_distribution = <<>>
    /\ workers = <<>>
    /\ result_queue = <<>>
    /\ all_executions = <<>>
    /\ clock = 0
    /\ heap = <<>>
    /\ mc = NoCollector
    /\ result = NoResult
    /\ lastCall = [op |-> "init", raised |-> FALSE]
    /\ lifecycle = "idle"
    /\ concurrency = 1
    /\ _is_running = FALSE
    /\ pc = "idle"
    /\ i = 0
    /\ run_id = 0
    /\ ex = NoExecution
    /\ tasks = <<>>
    /\ outcome = "none"
    /\ raisedBy = "None"
    /\ runs = 0
    /\ executed = NoneExecuted
    /\ gen \in {[NoGenerator EXCEPT !.kind = kd] : kd \in {"pool", "single"}}
    /\ pool = NoPool
    /\ AppIdle

\* a sleep after every failure
sleep_after_every(attempt) == TRUE
\* if attempt < retry_attempts - 1: time.sleep(retry_delay)
sleep_after(attempt) == attempt < retry_attempts - 1

\* except Exception as e: last_error = e; sleep unless this was the last attempt;
\* the for loop goes on to the next attempt
Conn_except(g) ==
    [g EXCEPT !.pc = "loop",
              !.conn = 0,
              !.sleeps = IF sleep_after(g.attempt) THEN Append(@, g.attempt) ELSE @,
              !.attempt = @ + 1]

\* self._pool.putconn(conn)
putconn(pl, conn) ==
    [pl EXCEPT !.out = @ \ {conn}, !.returned = Append(@, conn)]

\* `with self.get_connection() as conn:` is entered: the generator is created and
\* runs to its for loop.  An earlier with statement has ended
Conn_enter ==
    /\ gen.pc \in {"none", "done", "abandoned"}
    /\ gen.withs < MaxWith
    /\ gen' = [NoGenerator EXCEPT !.pc = "loop", !.kind = gen.kind,
                                  !.withs = gen.withs + 1]
    /\ UNCHANGED <<collVars, driverVars, schedVars, parVars, appVars, pool>>

\* one pass of the for loop up to the health check (pool) or the yield (single
\* connection): getconn() returns a connection or raises; the single connection
\* is open or closed
Conn_attempt ==
    /\ gen.pc = "loop"
    /\ gen.attempt < retry_attempts
    /\ \E ok \in BOOLEAN :
          IF ~ok
          THEN /\ gen' = Conn_except(gen)
               /\ UNCHANGED pool
          ELSE IF gen.kind = "single"
          THEN /\ gen' = IF gen.thrown
                          THEN [gen EXCEPT !.pc = "abandoned", !.exit = "RuntimeError",
                                           !.yields = Append(@, 0)]
                          ELSE [gen EXCEPT !.pc = "yielded", !.yields = Append(@, 0)]
               /\ UNCHANGED pool
          ELSE /\ gen' = [gen EXCEPT !.pc = "checking", !.conn = pool.taken + 1]
               /\ pool' = [pool EXCEPT !.taken = @ + 1, !.out = @ \cup {pool.taken + 1}]
    /\ UNCHANGED <<collVars, driverVars, schedVars, parVars, appVars>>

\* cursor.execute("SELECT 1") and the yield.  A failed check leaves through the
\* finally (putconn) to the except clause.  A yield after the body's exception was
\* thrown in makes contextlib raise RuntimeError("generator didn't stop after
\* throw()") in the caller; the generator stays suspended at its yield, holding the
\* connection, unless the runtime closes it at once (closes)
Conn_health_check ==
    /\ gen.pc = "checking"
    /\ \E ok \in BOOLEAN, closes \in BOOLEAN :
          IF ~ok
          THEN /\ pool' = putconn(pool, gen.conn)
               /\ gen' = Conn_except(gen)
          ELSE IF ~gen.thrown
          THEN /\ pool' = [pool EXCEPT !.checked = @ \cup {gen.conn}]
               /\ gen' = [gen EXCEPT !.pc = "yielded", !.yields = Append(@, gen.conn)]
          ELSE IF closes
          THEN /\ pool' = putconn([pool EXCEPT !.checked = @ \cup {gen.conn}], gen.conn)
               /\ gen' = [gen EXCEPT !.pc = "done", !.exit = "RuntimeError", !.conn = 0,
                                     !.yields = Append(@, gen.conn)]
          ELSE /\ pool' = [pool EXCEPT !.checked = @ \cup {gen.conn}]
               /\ gen' = [gen EXCEPT !.pc = "abandoned", !.exit = "RuntimeError",
                                     !.yields = Append(@, gen.conn)]
    /\ UNCHANGED <<collVars, driverVars, schedVars, parVars, appVars>>

\* the body of the with statement ends.  Normally (or by return): the generator
\* resumes, returns through the finally (putconn) and the statement completes.
\* With an exception: it is thrown in at the yield, the finally puts the connection
\* back and `except Exception` catches it
Conn_body_exit ==
    /\ gen.pc = "yielded"
    /\ \E body \in {"ok", "error"} :
          /\ pool' = IF gen.kind = "pool" THEN putconn(pool, gen.conn) ELSE pool
          /\ gen' = IF body = "ok"
                     THEN [gen EXCEPT !.pc = "done", !.exit = "None", !.conn = 0]
                     ELSE [Conn_except(gen) EXCEPT !.thrown = TRUE]
    /\ UNCHANGED <<collVars, driverVars, schedVars, parVars, appVars>>

\* the for loop is exhausted: raise BenchmarkConnectionError
Conn_exhausted ==
    /\ gen.pc = "loop"
    /\ gen.attempt >= retry_attempts
    /\ gen' = [gen EXCEPT !.pc = "done", !.exit = "ConnectionError"]
    /\ UNCHANGED <<collVars, driverVars, schedVars, parVars, appVars, pool>>

\* an abandoned generator is finalized when the runtime collects it: GeneratorExit
\* at the yield, the finally puts the connection back
Conn_collect ==
    /\ gen.pc = "abandoned"
    /\ pool' = IF gen.kind = "pool" THEN putconn(pool, gen.conn) ELSE pool
    /\ gen' = [gen EXCEPT !.pc = "done", !.conn = 0]
    /\ UNCHANGED <<collVars, driverVars, schedVars, parVars, appVars>>

NextConnection ==
    \/ Conn_enter
    \/ Conn_attempt
    \/ Conn_health_check
    \/ Conn_body_exit
    \/ Conn_exhausted
    \/ Conn_collect

SpecConnection == InitConnection /\ [][NextConnection]_vars

\* ====================================================== benchmarks/single.py

\* how the database answers one attempt of the Sequential scheduler:
\* psycopg2.Error ("transient"), QueryCanceledError ("timeout")
SeqOutcomes == {"ok", "transient", "timeout"}

\* a warmup loop that stops one short
warmup_pending_short(idx) == idx + 1 < config.warmup_runs
\* for i in range(self.config.warmup_runs)
warmup_pending(idx) == idx < config.warmup_runs

\* for run_id in range(self.config.number_of_runs)
runs_pending(idx) == idx < config.number_of_runs

\* the list of the collector in use (empty when there is no collector object)
CurrentList == IF mc.executions = 0 THEN <<>> ELSE heap[mc.executions]

InitSingle ==
    /\ ParallelIdle
    /\ ConnectionIdle
    /\ AppIdle
    /\ strategy = "sequential"
    /\ config \in Configs
    /\ concurrency = 1
    /\ clock = 0
    /\ heap = <<<<>>>>
    /\ mc = MetricsCollector(1)          \* BaseBenchmark.__init__
    /\ result = NoResult
    /\ lastCall = [op |-> "init", raised |-> FALSE]
    /\ lifecycle = "idle"
    /\ _is_running = FALSE
    /\ pc = "idle"
    /\ i = 0
    /\ run_id = 0
    /\ ex = NoExecution
    /\ tasks = <<>>
    /\ outcome = "none"
    /\ raisedBy = "None"
    /\ runs = 0
    /\ executed = NoneExecuted

\* SingleThreadBenchmark.run up to the warmup loop
Single_run_begin ==
    /\ strategy = "sequential"
    /\ pc = "idle"
    /\ runs < MaxRunCalls
    /\ runs' = runs + 1
    /\ _is_running' = TRUE
    /\ mc' = start(mc, clock)
    /\ clock' = clock + 1
    /\ pc' = "warmup"
    /\ i' = 0
    /\ run_id' = 0
    /\ ex' = NoExecution
    /\ outcome' = "none"
    /\ raisedBy' = "None"
    /\ executed' = NoneExecuted
    /\ UNCHANGED <<heap, result, strategy, config, concurrency, tasks, driverVars>>
    /\ UNCHANGED extVars

\* the warmup loop is exhausted: on to the measured loop
Single_warmup_done ==
    /\ strategy = "sequential"
    /\ pc = "warmup"
    /\ ex.status # "running"
    /\ ~warmup_pending(i)
    /\ pc' = "measured"
    /\ UNCHANGED <<collVars, driverVars, strategy, config, concurrency, _is_running, i,
                   run_id, ex, tasks, outcome, raisedBy, runs, executed>>
    /\ UNCHANGED extVars

\* BaseBenchmark._execute_hooks: for hook in hooks: try: hook(context) except
\* Exception: log.  hooks[k] is what hook k does when called: "ok" | "raises" (an
\* Exception); called lists the hooks called, caught those whose exception the
\* except clause logged, raised is the exception that leaves the call
RECURSIVE _execute_hooks_from(_, _)
_execute_hooks_from(hooks, k) ==
    IF k > Len(hooks) THEN [called |-> <<>>, caught |-> <<>>, raised |-> "None"]
    ELSE LET rest == _execute_hooks_from(hooks, k + 1)
         IN [called |-> <<k>> \o rest.called,
             caught |-> IF hooks[k] = "raises" THEN <<k>> \o rest.caught ELSE rest.caught,
             raised |-> rest.raised]

\* _execute_hooks without the try: the first hook that raises ends the loop and
\* its exception reaches the caller
_execute_hooks_propagating(hooks) ==
    LET bad == {k \in DOMAIN hooks : hooks[k] = "raises"} IN
    IF bad = {} THEN [called |-> [k \in DOMAIN hooks |-> k], caught |-> <<>>,
                      raised |-> "None"]
    ELSE LET m == CHOOSE k \in bad : \A j \in bad : k <= j
         IN [called |-> [k \in 1..m |-> k], caught |-> <<>>, raised |-> "HookError"]

_execute_hooks(hooks) == _execute_hooks_from(hooks, 1)

\* an exception leaves run(): the finally block, then the exception reaches the caller
Single_raise(exc, e1) ==
    /\ _is_running' = FALSE
    /\ mc' = end(mc, clock)
    /\ clock' = clock + 1
    /\ pc' = "idle"
    /\ outcome' = "raised"
    /\ raisedBy' = exc
    /\ ex' = [e1 EXCEPT !.status = "aborted"]
    /\ UNCHANGED <<heap, result, i, run_id, executed>>

\* _execute_single_query up to its while loop, called from the warmup or the
\* measured loop: the pre-execution hooks are executed, then the locals are set;
\* db is the answer the database gives to the first attempt
\* (nothing in the method, before or after the loop, calls the hooks of
\* self._post_hooks: the execution's post_called stays empty)
Single_execute_begin ==
    /\ strategy = "sequential"
    /\ ex.status # "running"
    /\ \/ pc = "warmup" /\ warmup_pending(i)
       \/ pc = "measured" /\ runs_pending(run_id)
    /\ LET h == _execute_hooks(_pre_hooks) IN
       /\ hook_calls' = [hooks |-> _pre_hooks, called |-> h.called,
                         post_called |-> <<>>]
       /\ IF h.raised # "None"
             THEN Single_raise(h.raised, [NoExecution EXCEPT !.warmup = (pc = "warmup")])
             ELSE /\ \E d \in SeqOutcomes :
                        ex' = [status |-> "running", warmup |-> (pc = "warmup"),
                               run_id |-> IF pc = "warmup" THEN 0 ELSE run_id,
                               start_time |-> clock, success |-> FALSE, error |-> "None",
                               retry_count |-> 0, hist |-> <<>>, db |-> d]
                  /\ UNCHANGED <<collVars, _is_running, pc, i, run_id, outcome, raisedBy,
                                 executed>>
    /\ UNCHANGED <<driverVars, strategy, config, concurrency, tasks, runs>>
    /\ UNCHANGED <<parVars, connVars, _sql_query, _sql_params, _pre_hooks, _post_hooks,
                   stress, formatter>>

\* _execute_single_query after its while loop, and what its caller does with the
\* value returned: the warmup loop drops it, the measured loop adds it
Single_return(e1) ==
    IF e1.warmup
    THEN /\ i' = i + 1
         /\ ex' = [e1 EXCEPT !.status = "done"]
         /\ executed' = [executed EXCEPT !.warmup = @ + 1]
         /\ UNCHANGED <<clock, heap, mc, result, _is_running, pc, run_id, outcome, raisedBy>>
    ELSE IF add_execution_raises(mc)
    THEN Single_raise("RuntimeError", e1)
    ELSE /\ heap' = add_execution(mc, heap,
                       QueryExecution(e1.run_id, e1.start_time, clock, e1.success, e1.error))
         /\ run_id' = run_id + 1
         /\ ex' = [e1 EXCEPT !.status = "done"]
         /\ executed' = [executed EXCEPT !.measured = @ + 1]
         /\ UNCHANGED <<clock, mc, result, _is_running, pc, i, outcome, raisedBy>>

\* one iteration of the while loop of _execute_single_query
Single_attempt ==
    /\ strategy = "sequential"
    /\ ex.status = "running"
    /\ ex.retry_count <= config.retry_on_error
    /\ \E acq \in Acquisitions, nxt \in SeqOutcomes :
          LET g == get_connection(acq, ex.db)
              h == Append(ex.hist, IF g.bodyRan THEN ex.db ELSE "connfail")
          IN
          IF g.raised = "None"
          THEN \* success = True; break
               Single_return([ex EXCEPT !.success = TRUE, !.hist = h, !.db = "none"])
          ELSE IF g.raised = "QueryCanceledError"
          THEN \* except QueryCanceledError: error is set, retry_count is not changed
               LET e1 == [ex EXCEPT !.error = "Query timeout", !.hist = h, !.db = nxt] IN
               IF e1.retry_count <= config.retry_on_error
               THEN /\ ex' = e1
                    /\ UNCHANGED <<collVars, _is_running, pc, i, run_id, outcome, raisedBy,
                                   executed>>
               ELSE Single_return(e1)
          ELSE \* no except clause matches
               Single_raise(g.raised, [ex EXCEPT !.hist = h, !.db = nxt])
    /\ UNCHANGED <<driverVars, strategy, config, concurrency, tasks, runs>>
    /\ UNCHANGED extVars

\* the measured loop is exhausted: the finally block and return get_result()
Single_run_end ==
    /\ strategy = "sequential"
    /\ pc = "measured"
    /\ ex.status # "running"
    /\ ~runs_pending(run_id)
    /\ _is_running' = FALSE
    /\ mc' = end(mc, clock)
    /\ clock' = clock + 1
    /\ pc' = "idle"
    /\ IF get_result_raises(mc')
          THEN /\ outcome' = "raised"
               /\ raisedBy' = "RuntimeError"
               /\ UNCHANGED result
          ELSE /\ outcome' = "returned"
               /\ raisedBy' = "None"
               /\ result' = get_result(mc', heap)
    /\ UNCHANGED <<heap, driverVars, strategy, config, concurrency, i, run_id, ex, tasks, runs, executed>>
    /\ UNCHANGED extVars

NextSingle ==
    \/ Single_run_begin
    \/ Single_warmup_done
    \/ Single_execute_begin
    \/ Single_attempt
    \/ Single_run_end

SpecSingle == InitSingle /\ [][NextSingle]_vars


\* ================================================= benchmarks/async_bench.py

\* how one attempt of the Concurrent scheduler ends: asyncpg.PostgresError
\* ("transient"), asyncio.TimeoutError ("timeout"), any other Exception ("other")
AsyncOutcomes == {"ok", "transient", "timeout", "other"}

Min(a, b) == IF a < b THEN a ELSE b

\* for i in range(0, len(warmup_tasks), self.concurrency), under `if warmup_runs > 0`
Async_warmup_pending(idx) == config.warmup_runs > 0 /\ idx < config.warmup_runs

\* for batch_start in range(0, self.config.number_of_runs, self.concurrency)
Async_runs_pending(idx) == idx < config.number_of_runs

\* a loop that does not wait for its batch
BatchNotAwaited == TRUE
\* no coroutine of a gathered batch is in flight
BatchJoined == \A k \in DOMAIN tasks : tasks[k].status = "joined"

\* self._execute_query(run_id=-i - 1)
WarmupRunId(idx) == -idx - 1

InitAsync ==
    /\ ParallelIdle
    /\ ConnectionIdle
    /\ AppIdle
    /\ strategy = "concurrent"
    /\ config \in Configs
    /\ concurrency \in 1..MaxConcurrency
    /\ clock = 0
    /\ heap = <<>>
    /\ mc = NoCollector
    /\ result = NoResult
    /\ lastCall = [op |-> "init", raised |-> FALSE]
    /\ lifecycle = "idle"
    /\ _is_running = FALSE
    /\ pc = "idle"
    /\ i = 0
    /\ run_id = 0
    /\ ex = NoExecution
    /\ tasks = <<>>
    /\ outcome = "none"
    /\ raisedBy = "None"
    /\ runs = 0
    /\ executed = NoneExecuted

\* AsyncBenchmark._run_async up to the warmup: _create_pool succeeds or raises
\* ConnectionError, which leaves through the finally block.  The collector of the
\* run before was a local of that call; the caller has dropped the result it got,
\* so the list both held is unreachable and is collected.  Nothing reachable holds
\* a timestamp of an earlier run, so time is counted from the start of this run
\* and the calls made before need not be counted
Async_run_begin ==
    /\ strategy = "concurrent"
    /\ pc = "idle"
    /\ runs' = 1
    /\ executed' = NoneExecuted
    /\ clock' = 0
    /\ i' = 0
    /\ run_id' = 0
    /\ tasks' = <<>>
    /\ mc' = NoCollector
    /\ result' = NoResult
    /\ heap' = <<>>
    /\ \E poolOk \in BOOLEAN :
          IF poolOk
          THEN /\ _is_running' = TRUE
               /\ pc' = "warmup"
               /\ outcome' = "none"
               /\ raisedBy' = "None"
          ELSE /\ _is_running' = FALSE
               /\ pc' = "idle"
               /\ outcome' = "raised"
               /\ raisedBy' = "ConnectionError"
    /\ UNCHANGED <<driverVars, strategy, config, concurrency, ex>>
    /\ UNCHANGED extVars

\* the coroutine _execute_query(rid) up to its while loop
Async_task(rid, now, d) ==
    [status |-> "running", warmup |-> (rid < 0), run_id |-> rid, start_time |-> now,
     end_time |-> None, success |-> FALSE, error |-> "None", retry_count |-> 0,
     hist |-> <<>>, db |-> d]

\* asyncio.gather(*batch): the coroutines of one batch start, in order; each runs
\* up to its first wait.  d[k] is the answer to the first attempt of coroutine k
Async_batch_begin ==
    /\ strategy = "concurrent"
    /\ BatchJoined
    /\ \/ pc = "warmup" /\ Async_warmup_pending(i)
       \/ pc = "measured" /\ Async_runs_pending(run_id)
    /\ LET size == IF pc = "warmup"
                   THEN Min(i + concurrency, config.warmup_runs) - i
                   ELSE Min(run_id + concurrency, config.number_of_runs) - run_id
       IN
       /\ \E d \in [1..size -> AsyncOutcomes] :
             tasks' = [k \in 1..size |->
                         Async_task(IF pc = "warmup" THEN WarmupRunId(i + k - 1)
                                                     ELSE run_id + k - 1,
                                    clock, d[k])]
    /\ UNCHANGED <<collVars, driverVars, strategy, config, concurrency,
                   _is_running, pc, i, run_id, ex, outcome, raisedBy, runs, executed>>
    /\ UNCHANGED extVars

\* the coroutine leaves its while loop: end_time = datetime.now()
Async_break(t, now) == [t EXCEPT !.status = "done", !.end_time = now]

\* one iteration of the while loop of _execute_query for coroutine t, whose attempt
\* ends as t.db; nxt is the answer the database would give to one more attempt
\* after a transient error
_execute_query(t, nxt, now) ==
    LET h == Append(t.hist, t.db) IN
    IF t.db = "ok"
    THEN Async_break([t EXCEPT !.success = TRUE, !.hist = h, !.db = "none"], now)
    ELSE IF t.db = "timeout"
    THEN Async_break([t EXCEPT !.error = "Query timeout", !.hist = h, !.db = "none"], now)
    ELSE IF t.db = "transient"
    THEN LET t1 == [t EXCEPT !.error = "transient", !.hist = h, !.db = nxt,
                             !.retry_count = @ + 1] IN
         IF t1.retry_count <= config.retry_on_error
         THEN t1                       \* await asyncio.sleep(0.5 * retry_count)
         ELSE Async_break(t1, now)
    ELSE Async_break([t EXCEPT !.error = "other", !.hist = h, !.db = "none"], now)

Async_attempt ==
    /\ strategy = "concurrent"
    /\ \E k \in DOMAIN tasks, nxt \in AsyncOutcomes :
          /\ tasks[k].status = "running"
          /\ tasks[k].retry_count <= config.retry_on_error
          /\ LET t1 == _execute_query(tasks[k], nxt, clock) IN
             /\ tasks' = [tasks EXCEPT ![k] = t1]
             /\ executed' = IF t1.status # "done" THEN executed
                            ELSE IF t1.warmup THEN [executed EXCEPT !.warmup = @ + 1]
                            ELSE [executed EXCEPT !.measured = @ + 1]
    /\ UNCHANGED <<collVars, driverVars, strategy, config, concurrency,
                   _is_running, pc, i, run_id, ex, outcome, raisedBy, runs>>
    /\ UNCHANGED extVars

\* the records of a gathered batch, in the order of its coroutines
RECURSIVE add_all(_, _, _)
add_all(c, h, ts) ==
    IF ts = <<>> THEN h
    ELSE add_all(c,
                 add_execution(c, h, QueryExecution(Head(ts).run_id, Head(ts).start_time,
                                                    Head(ts).end_time, Head(ts).success,
                                                    Head(ts).error)),
                 Tail(ts))

\* asyncio.gather returns: a warmup batch is dropped, the records of a measured
\* batch are added to the collector
Async_batch_end ==
    /\ strategy = "concurrent"
    /\ tasks # <<>>
    /\ \A k \in DOMAIN tasks : tasks[k].status = "done"
    /\ tasks' = [k \in DOMAIN tasks |-> [tasks[k] EXCEPT !.status = "joined"]]
    /\ IF pc = "warmup"
          THEN /\ i' = i + concurrency
               /\ UNCHANGED <<heap, run_id>>
          ELSE /\ heap' = add_all(mc, heap, tasks)
               /\ run_id' = run_id + concurrency
               /\ UNCHANGED i
    /\ UNCHANGED <<clock, mc, result, driverVars, strategy, config, concurrency,
                   _is_running, pc, ex, outcome, raisedBy, runs, executed>>
    /\ UNCHANGED extVars

\* _execute_warmup has returned: collector = MetricsCollector(); collector.start()
Async_warmup_done ==
    /\ strategy = "concurrent"
    /\ pc = "warmup"
    /\ BatchJoined
    /\ ~Async_warmup_pending(i)
    /\ heap' = NewList(heap)
    /\ mc' = start(MetricsCollector(Len(heap) + 1), clock)
    /\ clock' = clock + 1
    /\ pc' = "measured"
    /\ run_id' = 0
    /\ UNCHANGED <<result, driverVars, strategy, config, concurrency, _is_running, i,
                   ex, tasks, outcome, raisedBy, runs, executed>>
    /\ UNCHANGED extVars

\* the batch loop is exhausted: collector.end(); return collector.get_result();
\* the finally block
Async_run_end ==
    /\ strategy = "concurrent"
    /\ pc = "measured"
    /\ BatchJoined
    /\ ~Async_runs_pending(run_id)
    /\ mc' = end(mc, clock)
    /\ clock' = clock + 1
    /\ _is_running' = FALSE
    /\ pc' = "idle"
    /\ IF get_result_raises(mc')
          THEN /\ outcome' = "raised"
               /\ raisedBy' = "RuntimeError"
               /\ UNCHANGED result
          ELSE /\ outcome' = "returned"
               /\ raisedBy' = "None"
               /\ result' = get_result(mc', heap)
    /\ UNCHANGED <<heap, driverVars, strategy, config, concurrency, i, run_id, ex, tasks, runs, executed>>
    /\ UNCHANGED extVars

NextAsync ==
    \/ Async_run_begin
    \/ Async_batch_begin
    \/ Async_attempt
    \/ Async_batch_end
    \/ Async_warmup_done
    \/ Async_run_end

\* ------------------------------------------------- both schedulers
Init == InitSingle \/ InitAsync

Next == NextSingle \/ NextAsync

Spec == Init /\ [][Next]_vars

SpecAsync == InitAsync /\ [][NextAsync]_vars


\* ==================================================== benchmarks/parallel.py

\* no collector object, no scheduler loop in progress
CollectorAbsent ==
    /\ clock = 0
    /\ heap = <<>>
    /\ mc = NoCollector
    /\ result = NoResult
    /\ lastCall = [op |-> "init", raised |-> FALSE]
    /\ lifecycle = "idle"

LoopsIdle ==
    /\ concurrency = 1
    /\ _is_running = FALSE
    /\ pc = "idle"
    /\ i = 0
    /\ run_id = 0
    /\ ex = NoExecution
    /\ tasks = <<>>
    /\ outcome = "none"
    /\ raisedBy = "None"
    /\ runs = 0
    /\ executed = NoneExecuted

\* a distribution that gives every worker the quotient only
_calculate_work_distribution_floor(cfg, W) ==
    [k \in 1..W |->
        [process_id |-> k - 1,
         num_runs |-> cfg.number_of_runs \div W,
         num_warmup |-> cfg.warmup_runs \div W,
         run_offset |-> (k - 1) * (cfg.number_of_runs \div W)]]

\* ParallelBenchmark._calculate_work_distribution: the for loop from index idx on,
\* run_offset being the running offset
RECURSIVE _calculate_work_distribution_from(_, _, _, _)
_calculate_work_distribution_from(idx, run_offset, cfg, W) ==
    IF idx >= W THEN <<>>
    ELSE LET runs_per_process == cfg.number_of_runs \div W
             remainder == cfg.number_of_runs % W
             warmup_per_process == cfg.warmup_runs \div W
             warmup_remainder == cfg.warmup_runs % W
             process_runs == runs_per_process + (IF idx < remainder THEN 1 ELSE 0)
             process_warmup == warmup_per_process
                                  + (IF idx < warmup_remainder THEN 1 ELSE 0)
         IN <<[process_id |-> idx, num_runs |-> process_runs,
               num_warmup |-> process_warmup, run_offset |-> run_offset]>>
            \o _calculate_work_distribution_from(idx + 1, run_offset + process_runs,
                                                 cfg, W)

\* a distribution whose items all start at offset 0
_calculate_work_distribution_no_offset(cfg, W) ==
    [k \in 1..W |->
        [_calculate_work_distribution_from(0, 0, cfg, W)[k] EXCEPT !.run_offset = 0]]

_calculate_work_distribution(cfg, W) == _calculate_work_distribution_from(0, 0, cfg, W)

\* ------------------------------------------- the work distribution alone
DistConfigs ==
    [number_of_runs : 1..MaxDistRuns, warmup_runs : 0..MaxDistWarmup,
     retry_on_error : {0}, timeout : {None}, batch_size : {None}]

InitDistribution ==
    /\ strategy = "parallel"
    /\ config \in DistConfigs
    /\ num_processes \in 1..MaxDistProcesses
    /\ work_distribution = <<>>
    /\ workers = <<>>
    /\ result_queue = <<>>
    /\ all_executions = <<>>
    /\ ConnectionIdle
    /\ AppIdle
    /\ CollectorAbsent
    /\ LoopsIdle

\* work_distribution = self._calculate_work_distribution()
Dist_calculate ==
    /\ work_distribution = <<>>
    /\ work_distribution' = _calculate_work_distribution(config, num_processes)
    /\ UNCHANGED <<collVars, driverVars, schedVars, num_processes, workers,
                   result_queue, all_executions, connVars, appVars>>

SpecDistribution == InitDistribution /\ [][Dist_calculate]_vars

\* ------------------------------------------- ParallelBenchmark.run / iter_results

\* the configuration a worker builds for its own SingleThreadBenchmark
local_config(item) ==
    [number_of_runs |-> item.num_runs, warmup_runs |-> item.num_warmup,
     retry_on_error |-> config.retry_on_error, timeout |-> config.timeout,
     batch_size |-> None]

\* a worker process: warm and done count the warmup and the measured executions it
\* has completed, executions is the list _worker_function returns, manager its
\* ConnectionManager: "none" | "open" | "closed"
NewWorker ==
    [status |-> "started", warm |-> 0, done |-> 0, executions |-> <<>>, exc |-> "None",
     manager |-> "none"]

\* a liveness test that never sees a process end
is_alive_always(w) == TRUE
\* Process.is_alive()
is_alive(w) == w.status \in {"started", "running", "hung"}

\* a worker's loop never reads retry_on_error after its first attempt (single.py
\* leaves retry_count at 0), so one value stands for all
ParallelConfigs == {cfg \in Configs : cfg.retry_on_error = 0}

InitParallel ==
    /\ strategy = "parallel"
    /\ config \in ParallelConfigs
    /\ num_processes \in 1..MaxProcesses
    /\ work_distribution = <<>>
    /\ workers = <<>>
    /\ result_queue = <<>>
    /\ all_executions = <<>>
    /\ ConnectionIdle
    /\ AppIdle
    /\ CollectorAbsent
    /\ LoopsIdle

\* run() / iter_results() up to the point where the workers have been handed their
\* work items.  The result of a call before was returned to the caller and its
\* collector was a local, so nothing of it is kept
Par_begin(mode) ==
    /\ strategy = "parallel"
    /\ pc = "idle"
    /\ runs' = 1
    /\ _is_running' = TRUE
    /\ work_distribution' = _calculate_work_distribution(config, num_processes)
    /\ workers' = [k \in 1..num_processes |-> NewWorker]
    /\ result_queue' = <<>>
    /\ all_executions' = <<>>
    /\ pc' = mode
    /\ outcome' = "none"
    /\ raisedBy' = "None"
    /\ clock' = 0
    /\ heap' = <<>>
    /\ mc' = NoCollector
    /\ result' = NoResult
    /\ UNCHANGED <<driverVars, strategy, config, concurrency, i, run_id, ex, tasks,
                   executed, num_processes, connVars, appVars>>

\* run(): pool.map(worker_func, work_distribution) has dispatched the items
Par_run_begin == Par_begin("mapping")

\* iter_results(): every Process has been started
Par_iter_begin == Par_begin("collecting")

\* a worker up to its loop: ConnectionManager(connection_params) creates the pool or
\* raises ConnectionError; SingleThreadBenchmark(conn_manager, local_config)
\* validates the local configuration
Worker_setup(k, poolOk) ==
    IF ~poolOk THEN [workers[k] EXCEPT !.exc = "ConnectionError"]
    ELSE IF validate_raises(local_config(work_distribution[k]))
    THEN [workers[k] EXCEPT !.exc = "ValueError", !.manager = "open"]
    ELSE [workers[k] EXCEPT !.status = "running", !.manager = "open"]

\* one iteration of the loops of SingleThreadBenchmark.iter_results in worker k:
\* _execute_single_query makes its attempt through get_connection and returns, or
\* is left by the exception get_connection raises.  The record of a measured
\* execution gets run_id = run_offset + execution.run_id.  The workers run within
\* one tick of the parent's clock: a query starts at the time the parent started
\* the workers and has ended one tick later
Worker_execute(k, acq, d) ==
    LET w == workers[k]
        item == work_distribution[k]
        g == get_connection(acq, d)
    IN
    IF g.raised # "None" THEN [w EXCEPT !.exc = g.raised]
    ELSE IF w.warm < item.num_warmup THEN [w EXCEPT !.warm = @ + 1]
    ELSE [w EXCEPT !.done = @ + 1,
                   !.executions = Append(@, QueryExecution(item.run_offset + w.done,
                                                           clock, clock + 1, TRUE,
                                                           "None"))]

\* worker k has work left in its loops
Worker_pending(k) ==
    \/ workers[k].warm < work_distribution[k].num_warmup
    \/ workers[k].done < work_distribution[k].num_runs

\* what worker k can do next: set up, execute the next query, or (its loops
\* exhausted) close its connection manager and end with status `last`
Worker_steps(k, last) ==
    IF workers[k].status = "started"
    THEN {Worker_setup(k, poolOk) : poolOk \in BOOLEAN}
    ELSE IF Worker_pending(k)
    THEN {Worker_execute(k, acq, d) : acq \in Acquisitions, d \in SeqOutcomes}
    ELSE {[workers[k] EXCEPT !.status = last, !.manager = "closed"]}

\* _worker_function in a pool process: an exception leaves the function and is
\* kept by the pool for map() to raise
Worker_function(k) ==
    /\ strategy = "parallel"
    /\ pc = "mapping"
    /\ k \in DOMAIN workers
    /\ workers[k].status \in {"started", "running"}
    /\ \E w1 \in Worker_steps(k, "returned") :
          workers' = [workers EXCEPT ![k] =
                         IF w1.exc # "None" THEN [w1 EXCEPT !.status = "raised"]
                         ELSE w1]
    /\ UNCHANGED <<collVars, driverVars, schedVars, num_processes, work_distribution,
                   result_queue, all_executions, connVars, appVars>>

\* the records of a list are added to collector c, in order
RECURSIVE add_executions(_, _, _)
add_executions(c, h, es) ==
    IF es = <<>> THEN h
    ELSE add_executions(c, add_execution(c, h, Head(es)), Tail(es))

\* for worker_results in results: for execution in worker_results
RECURSIVE Flatten(_)
Flatten(lists) ==
    IF lists = <<>> THEN <<>> ELSE Head(lists) \o Flatten(Tail(lists))

\* pool.map returns when every item is done.  If an item raised, map raises (the
\* first exception the pool received) and run() is left through its finally block;
\* otherwise _combine_results, one tick after the workers were started: a new
\* collector, start, add every record, end, get_result
Par_map_done ==
    /\ strategy = "parallel"
    /\ pc = "mapping"
    /\ \A k \in DOMAIN workers : workers[k].status \in {"returned", "raised"}
    /\ _is_running' = FALSE
    /\ pc' = "idle"
    /\ IF \E k \in DOMAIN workers : workers[k].status = "raised"
          THEN /\ outcome' = "raised"
               /\ \E k \in DOMAIN workers :
                     /\ workers[k].status = "raised"
                     /\ raisedBy' = workers[k].exc
               /\ UNCHANGED collVars
          ELSE LET c == start(MetricsCollector(Len(heap) + 1), clock + 1)
                   h == add_executions(c, NewList(heap),
                                       Flatten([k \in DOMAIN workers |->
                                                   workers[k].executions]))
                   c1 == end(c, clock + 2)
               IN
               /\ heap' = h
               /\ mc' = c1
               /\ clock' = clock + 3
               /\ result' = get_result(c1, h)
               /\ outcome' = "returned"
               /\ raisedBy' = "None"
    /\ UNCHANGED <<driverVars, strategy, config, concurrency, i, run_id, ex, tasks,
                   runs, executed, parVars, connVars, appVars>>

\* _worker_with_queue in its own process: records go to the queue as they complete;
\* an exception is caught and logged, and the process ends
Worker_with_queue(k) ==
    /\ strategy = "parallel"
    /\ pc \in {"collecting", "checking", "joining"}
    /\ k \in DOMAIN workers
    /\ workers[k].status \in {"started", "running"}
    /\ \E w1 \in Worker_steps(k, "exited") :
          /\ workers' = [workers EXCEPT ![k] =
                            IF w1.exc # "None"
                            THEN [w1 EXCEPT !.status = "exited"]
                            ELSE [w1 EXCEPT !.executions = <<>>]]
          /\ result_queue' = IF w1.exc = "None" /\ w1.executions # <<>>
                             THEN Append(result_queue, w1.executions[1])
                             ELSE result_queue
    /\ UNCHANGED <<collVars, driverVars, schedVars, num_processes, work_distribution,
                   all_executions, connVars, appVars>>

\* the process of worker k is killed
Worker_crash(k) ==
    /\ strategy = "parallel"
    /\ pc \in {"collecting", "checking", "joining"}
    /\ k \in DOMAIN workers
    /\ workers[k].status \in {"started", "running"}
    /\ workers' = [workers EXCEPT ![k].status = "crashed"]
    /\ UNCHANGED <<collVars, driverVars, schedVars, num_processes, work_distribution,
                   result_queue, all_executions, connVars, appVars>>

\* worker k blocks for ever (in a query without timeout, say): the process stays alive
Worker_hang(k) ==
    /\ strategy = "parallel"
    /\ pc \in {"collecting", "checking", "joining"}
    /\ k \in DOMAIN workers
    /\ workers[k].status = "running"
    /\ workers' = [workers EXCEPT ![k].status = "hung"]
    /\ UNCHANGED <<collVars, driverVars, schedVars, num_processes, work_distribution,
                   result_queue, all_executions, connVars, appVars>>

\* while len(all_executions) < total_expected: result_queue.get(timeout=1) returns
\* a record, which is appended and yielded
Iter_get ==
    /\ strategy = "parallel"
    /\ pc = "collecting"
    /\ Len(all_executions) < config.number_of_runs
    /\ result_queue # <<>>
    /\ all_executions' = Append(all_executions, Head(result_queue))
    /\ result_queue' = Tail(result_queue)
    /\ UNCHANGED <<collVars, driverVars, schedVars, num_processes, work_distribution,
                   workers, connVars, appVars>>

\* the loop ends: every expected record has arrived
Iter_loop_end ==
    /\ strategy = "parallel"
    /\ pc = "collecting"
    /\ Len(all_executions) >= config.number_of_runs
    /\ pc' = "joining"
    /\ UNCHANGED <<collVars, driverVars, strategy, config, concurrency, _is_running,
                   i, run_id, ex, tasks, outcome, raisedBy, runs, executed, extVars>>

\* result_queue.get(timeout=1) found the queue empty for a second and raises
\* queue.Empty
Iter_timeout ==
    /\ strategy = "parallel"
    /\ pc = "collecting"
    /\ Len(all_executions) < config.number_of_runs
    /\ result_queue = <<>>
    /\ pc' = "checking"
    /\ UNCHANGED <<collVars, driverVars, strategy, config, concurrency, _is_running,
                   i, run_id, ex, tasks, outcome, raisedBy, runs, executed, extVars>>

\* except queue.Empty: if not any(p.is_alive() for p in processes): break.  The
\* queue is not looked at again: with no process alive the loop is left, with a
\* process alive it goes round again
Iter_alive_check ==
    IF ~\E k \in DOMAIN workers : is_alive(workers[k])
    THEN "joining" ELSE "collecting"

\* the parent evaluates the handler of queue.Empty
Iter_except_empty ==
    /\ strategy = "parallel"
    /\ pc = "checking"
    /\ pc' = Iter_alive_check
    /\ UNCHANGED <<collVars, driverVars, strategy, config, concurrency, _is_running,
                   i, run_id, ex, tasks, outcome, raisedBy, runs, executed, extVars>>

\* for p in processes: p.join() returns once no process is alive; then, one tick
\* after the workers were started, _create_result_from_executions(all_executions)
\* and the finally block
Iter_join_return ==
    /\ strategy = "parallel"
    /\ pc = "joining"
    /\ ~\E k \in DOMAIN workers : is_alive(workers[k])
    /\ LET c == start(MetricsCollector(Len(heap) + 1), clock + 1)
           h == add_executions(c, NewList(heap), all_executions)
           c1 == end(c, clock + 2)
       IN
       /\ heap' = h
       /\ mc' = c1
       /\ clock' = clock + 3
       /\ result' = get_result(c1, h)
    /\ outcome' = "returned"
    /\ raisedBy' = "None"
    /\ _is_running' = FALSE
    /\ pc' = "idle"
    /\ UNCHANGED <<driverVars, strategy, config, concurrency, i, run_id, ex, tasks,
                   runs, executed, extVars>>

\* the steps of the parent in iter_results
Iter_parent ==
    Iter_get \/ Iter_loop_end \/ Iter_timeout \/ Iter_except_empty \/ Iter_join_return

NextParallel ==
    \/ Par_run_begin
    \/ \E k \in 1..MaxProcesses : Worker_function(k)
    \/ Par_map_done
    \/ Par_iter_begin
    \/ \E k \in 1..MaxProcesses : Worker_with_queue(k)
    \/ \E k \in 1..MaxProcesses : Worker_crash(k)
    \/ Iter_get
    \/ Iter_loop_end
    \/ Iter_timeout
    \/ Iter_except_empty
    \/ Iter_join_return

\* the parent's get() returns or times out after a second, and a process that is
\* alive and not blocked is scheduled
SpecParallel ==
    /\ InitParallel
    /\ [][NextParallel]_vars
    /\ WF_vars(Iter_parent)
    /\ \A k \in 1..MaxProcesses : WF_vars(Worker_with_queue(k))

\* the same with workers that may block for ever
NextParallelHang ==
    \/ NextParallel
    \/ \E k \in 1..MaxProcesses : Worker_hang(k)

SpecParallelHang ==
    /\ InitParallel
    /\ [][NextParallelHang]_vars
    /\ WF_vars(Iter_parent)
    /\ \A k \in 1..MaxProcesses : WF_vars(Worker_with_queue(k))

\* ------------------------------------------- the constructors of the schedulers

\* the values an Optional[float] / Optional[int] field is given
OptionalValues == {None, -2, 0, 1}

\* the configurations a caller can pass, valid or not
AnyConfigs ==
    [number_of_runs : 0..MaxRuns, warmup_runs : -1..MaxWarmup,
     retry_on_error : -1..MaxRetry, timeout : OptionalValues,
     batch_size : OptionalValues]

\* before the constructor is called: the caller has chosen the scheduler class and
\* its arguments
InitConstruct ==
    /\ strategy \in {"sequential", "concurrent", "parallel"}
    /\ config \in AnyConfigs
    /\ concurrency \in IF strategy = "concurrent" THEN 1..MaxConcurrency ELSE {1}
    /\ num_processes \in IF strategy = "parallel" THEN 1..MaxProcesses ELSE {1}
    /\ work_distribution = <<>>
    /\ workers = <<>>
    /\ result_queue = <<>>
    /\ all_executions = <<>>
    /\ ConnectionIdle
    /\ AppIdle
    /\ CollectorAbsent
    /\ _is_running = FALSE
    /\ pc = "unconstructed"
    /\ i = 0
    /\ run_id = 0
    /\ ex = NoExecution
    /\ tasks = <<>>
    /\ outcome = "none"
    /\ raisedBy = "None"
    /\ runs = 0
    /\ executed = NoneExecuted

\* BaseBenchmark.__init__ (SingleThreadBenchmark), AsyncBenchmark.__init__,
\* ParallelBenchmark.__init__: self.config.validate() raises ValueError, or the
\* remaining fields are set; only BaseBenchmark creates a MetricsCollector
Construct ==
    /\ pc = "unconstructed"
    /\ IF validate_raises(config)
          THEN /\ pc' = "failed"
               /\ outcome' = "raised"
               /\ raisedBy' = "ValueError"
               /\ UNCHANGED <<heap, mc>>
          ELSE /\ pc' = "idle"
               /\ UNCHANGED <<outcome, raisedBy>>
               /\ IF strategy = "sequential"
                     THEN /\ heap' = NewList(heap)
                          /\ mc' = MetricsCollector(Len(heap) + 1)
                     ELSE UNCHANGED <<heap, mc>>
    /\ UNCHANGED <<clock, result, driverVars, strategy, config, concurrency,
                   _is_running, i, run_id, ex, tasks, runs, executed, extVars>>

SpecConstruct == InitConstruct /\ [][Construct]_vars


\* ==================================================================== claims

\* ====================================== core/metrics.py: the statistics of a result
\* A float that is the quotient of two integers (durations are whole milliseconds,
\* times whole seconds); Sqrt(r) is the square root of the quotient r
Rat(n, d) == [num |-> n, den |-> d]
Zero == Rat(0, 1)
Sqrt(r) == [radicand |-> r]

\* QueryExecution with its duration: duration_ms is the value of the property
TimedExecution(rid, st, et, d, ok, err) ==
    [run_id |-> rid, start_time |-> st, end_time |-> et, duration_ms |-> d,
     success |-> ok, error |-> err]

\* [e.duration_ms for e in executions if e.success], in the order of the list
successful_durations(l) ==
    LET s == SelectSeq(l, LAMBDA e : e.success) IN
    [k \in DOMAIN s |-> s[k].duration_ms]

\* sorted(durations): ascending
RECURSIVE sorted(_)
sorted(s) ==
    IF s = <<>> THEN <<>>
    ELSE LET t == sorted(Tail(s))
             k == Cardinality({j \in DOMAIN t : t[j] <= Head(s)})
         IN SubSeq(t, 1, k) \o <<Head(s)>> \o SubSeq(t, k + 1, Len(t))

RECURSIVE sum(_)
sum(s) == IF s = <<>> THEN 0 ELSE Head(s) + sum(Tail(s))

\* sum of the squares
RECURSIVE sumsq(_)
sumsq(s) == IF s = <<>> THEN 0 ELSE Head(s) * Head(s) + sumsq(Tail(s))

min(s) == CHOOSE x \in {s[k] : k \in DOMAIN s} : \A j \in DOMAIN s : x <= s[j]
max(s) == CHOOSE x \in {s[k] : k \in DOMAIN s} : \A j \in DOMAIN s : x >= s[j]

\* statistics.mean
mean(s) == Rat(sum(s), Len(s))

\* statistics.median: the middle element of the sorted data, or the mean of the
\* two middle elements
median(s) ==
    LET t == sorted(s)
        n == Len(s)
    IN IF n % 2 = 1 THEN Rat(t[(n \div 2) + 1], 1)
                    ELSE Rat(t[n \div 2] + t[(n \div 2) + 1], 2)

\* the sample variance, sum((x - mean)^2) / (n - 1), for n > 1
variance(s) == Rat(Len(s) * sumsq(s) - sum(s) * sum(s), Len(s) * (Len(s) - 1))

\* statistics.stdev
stdev(s) == Sqrt(variance(s))

\* the percentiles reported; p is in tenths of a percent
Percentiles ==
    <<[key |-> "p25", p |-> 250], [key |-> "p50", p |-> 500], [key |-> "p75", p |-> 750],
      [key |-> "p90", p |-> 900], [key |-> "p95", p |-> 950], [key |-> "p99", p |-> 990],
      [key |-> "p99.9", p |-> 999]>>

\* the empty dict
EmptyDict == [k \in {} |-> 0]

\* _calculate_percentiles with the index taken among the n - 1 gaps
_calculate_percentiles_lower(durations) ==
    IF durations = <<>> THEN EmptyDict
    ELSE LET sorted_durations == sorted(durations)
             n == Len(sorted_durations)
         IN [key \in {Percentiles[j].key : j \in DOMAIN Percentiles} |->
                LET pc1 == CHOOSE j \in DOMAIN Percentiles : Percentiles[j].key = key
                    idx == ((n - 1) * Percentiles[pc1].p) \div 1000
                IN sorted_durations[idx + 1]]
\* BenchmarkResult._calculate_percentiles: idx = int(len * p / 100), clamped to
\* len - 1; the list index is 0-based
_calculate_percentiles(durations) ==
    IF durations = <<>> THEN EmptyDict
    ELSE LET sorted_durations == sorted(durations)
             n == Len(sorted_durations)
         IN [key \in {Percentiles[j].key : j \in DOMAIN Percentiles} |->
                LET pc1 == CHOOSE j \in DOMAIN Percentiles : Percentiles[j].key = key
                    idx0 == (n * Percentiles[pc1].p) \div 1000
                    idx == IF idx0 < n - 1 THEN idx0 ELSE n - 1
                IN sorted_durations[idx + 1]]

Buckets ==
    {"<1ms", "1-5ms", "5-10ms", "10-50ms", "50-100ms", "100-500ms", "500ms-1s",
     "1s-5s", ">5s"}

\* the if/elif chain of _calculate_latency_distribution
bucket(d) ==
    IF d < 1 THEN "<1ms"
    ELSE IF d < 5 THEN "1-5ms"
    ELSE IF d < 10 THEN "5-10ms"
    ELSE IF d < 50 THEN "10-50ms"
    ELSE IF d < 100 THEN "50-100ms"
    ELSE IF d < 500 THEN "100-500ms"
    ELSE IF d < 1000 THEN "500ms-1s"
    ELSE IF d < 5000 THEN "1s-5s"
    ELSE ">5s"

\* the chain with <= in place of <
bucket_closed(d) ==
    IF d <= 1 THEN "<1ms"
    ELSE IF d <= 5 THEN "1-5ms"
    ELSE IF d <= 10 THEN "5-10ms"
    ELSE IF d <= 50 THEN "10-50ms"
    ELSE IF d <= 100 THEN "50-100ms"
    ELSE IF d <= 500 THEN "100-500ms"
    ELSE IF d <= 1000 THEN "500ms-1s"
    ELSE IF d <= 5000 THEN "1s-5s"
    ELSE ">5s"

\* the distribution with closed upper boundaries
_calculate_latency_distribution_closed(durations) ==
    [b \in Buckets |-> Cardinality({k \in DOMAIN durations : bucket_closed(durations[k]) = b})]
\* BenchmarkResult._calculate_latency_distribution
_calculate_latency_distribution(durations) ==
    [b \in Buckets |-> Cardinality({k \in DOMAIN durations : bucket(durations[k]) = b})]

\* _set_empty_stats leaving the nine buckets, all zero
_set_empty_stats_buckets ==
    [min_time_ms |-> 0, max_time_ms |-> 0, avg_time_ms |-> Zero, median_time_ms |-> Zero,
     stddev_time_ms |-> Sqrt(Zero), cv |-> Sqrt(Zero), percentiles |-> EmptyDict,
     throughput_qps |-> Zero, latency_distribution |-> [b \in Buckets |-> 0]]
\* BenchmarkResult._set_empty_stats
_set_empty_stats ==
    [min_time_ms |-> 0, max_time_ms |-> 0, avg_time_ms |-> Zero, median_time_ms |-> Zero,
     stddev_time_ms |-> Sqrt(Zero), cv |-> Sqrt(Zero), percentiles |-> EmptyDict,
     throughput_qps |-> Zero, latency_distribution |-> EmptyDict]

\* BenchmarkResult._calculate_statistics: r holds the arguments of the constructor;
\* cv is stddev / avg, the square root of variance / avg^2
_calculate_statistics(r, h) ==
    LET executions == h[r.executions]
        ds == successful_durations(executions)
        n == Len(ds)
        total_time_seconds == r.end_time - r.start_time
    IN
    IF executions = <<>> THEN _set_empty_stats
    ELSE IF ds = <<>> THEN _set_empty_stats
    ELSE [min_time_ms |-> min(ds),
          max_time_ms |-> max(ds),
          avg_time_ms |-> mean(ds),
          median_time_ms |-> median(ds),
          stddev_time_ms |-> IF n > 1 THEN stdev(ds) ELSE Sqrt(Zero),
          cv |-> IF n > 1 /\ sum(ds) > 0
                 THEN Sqrt(Rat(variance(ds).num * n, (n - 1) * sum(ds) * sum(ds)))
                 ELSE Sqrt(Zero),
          percentiles |-> _calculate_percentiles(ds),
          throughput_qps |-> IF total_time_seconds > 0
                             THEN Rat(r.successful_runs, total_time_seconds)
                             ELSE Zero,
          latency_distribution |-> _calculate_latency_distribution(ds)]

\* BenchmarkResult(...): the dataclass fields, then __post_init__
BenchmarkResult(r, h) == r @@ _calculate_statistics(r, h)

\* ================================================== analyzers/statistics.py
\* analyze counting every execution of the result, not only the successful ones
analyze_raises_total(r, h) == Len(h[r.executions]) < 2
\* StatisticalAnalyzer.analyze: the guard on the successful durations
analyze_raises(r, h) == Len(successful_durations(h[r.executions])) < 2

\* np.median: nan (0/0) for an empty array
np_median(data) == IF data = <<>> THEN Rat(0, 0) ELSE median(data)

\* StatisticalAnalyzer.analyze: the basic statistics of the summary, computed on
\* data = the successful durations (np.std and np.var with ddof=1)
analyze(r, h) ==
    LET data == successful_durations(h[r.executions]) IN
    [n |-> Len(data), mean |-> mean(data), median |-> np_median(data),
     std_dev |-> stdev(data), variance |-> variance(data)]

\* ------------------------------- a result and its analysis, for any collector
\* durations in ms: the boundaries of the nine buckets, and 0
Durations == {0, 1, 5, 10, 50, 100, 500, 1000, 5000}

\* the executions a collector can hold: successful with any duration, failed with
\* no duration or with one
StatExecutions ==
    {[success |-> TRUE, duration_ms |-> d] : d \in Durations}
        \cup {[success |-> FALSE, duration_ms |-> d] : d \in {0, 10}}

\* a collector that start() and end() have both been called on, in either order:
\* it was started at 2 and ended at e; it is collecting when start() came last
InitStats ==
    /\ \E n \in 0..MaxStatExecs : \E es \in [1..n -> StatExecutions] :
          heap = <<[k \in 1..n |->
                     TimedExecution(k, 2, 2, es[k].duration_ms, es[k].success,
                                    IF es[k].success THEN "None" ELSE "error")]>>
    /\ \E e \in 1..(2 + MaxElapsed) : \E col \in BOOLEAN :
          /\ e > 2 => ~col
          /\ e < 2 => col
          /\ mc = [executions |-> 1, _start_time |-> 2, _end_time |-> e,
                   _is_collecting |-> col]
          /\ lifecycle = IF col THEN "collecting" ELSE "finalized"
          /\ clock = IF e > 2 THEN e ELSE 2
    /\ result = NoResult
    /\ lastCall = [op |-> "init", raised |-> FALSE]
    /\ SchedulerIdle

\* result = collector.get_result()
Stats_get_result ==
    /\ lastCall.op = "init"
    /\ ~get_result_raises(mc)
    /\ result' = BenchmarkResult(get_result(mc, heap), heap)
    /\ lastCall' = [op |-> "get_result", raised |-> FALSE]
    /\ UNCHANGED <<clock, heap, mc, lifecycle, schedVars>>
    /\ UNCHANGED extVars

\* StatisticalAnalyzer.analyze(result): raises ValueError, or returns the summary
Stats_analyze ==
    /\ lastCall.op = "get_result"
    /\ result # NoResult
    /\ lastCall' = IF analyze_raises(result, heap)
                   THEN [op |-> "analyze", raised |-> TRUE]
                   ELSE [op |-> "analyze", raised |-> FALSE,
                         value |-> analyze(result, heap)]
    /\ UNCHANGED <<clock, heap, mc, result, lifecycle, schedVars>>
    /\ UNCHANGED extVars

NextStats == Stats_get_result \/ Stats_analyze

SpecStats == InitStats /\ [][NextStats]_vars

\* ====================================================== benchmarks/stress.py
\* _run_ramp_up: steps = 10
steps == 10

\* mp.cpu_count() of the machine
CpuCounts == {1, 4, 16}

\* int((step + 1) / steps * max_connections): the float product is the exact
\* quotient for max_connections below 90
current_connections(step, max_connections) == ((step + 1) * max_connections) \div steps

\* _stop_event.set(); every monitor thread alive at that moment is marked
set_stop_event(s) ==
    [s EXCEPT !._stop_event = TRUE,
              !.threads = [k \in DOMAIN s.threads |->
                              IF s.threads[k].pc # "exited"
                              THEN [s.threads[k] EXCEPT !.stopped = TRUE]
                              ELSE s.threads[k]]]

\* the finally block of StressBenchmark.run
Stress_finally(s) == set_stop_event([s EXCEPT !._is_running = FALSE])

\* an exception leaves StressBenchmark.run(): the finally block
Stress_raise(exc) ==
    stress' = Stress_finally([stress EXCEPT !.pc = "raised", !.raised = exc])

\* the end of the try block of run(): the flag is set, and run() joins the monitor
\* thread if it has one, else it returns through the finally block
Stress_stop_monitoring(s) ==
    IF s._monitor_thread # 0
    THEN set_stop_event([s EXCEPT !.pc = "join"])
    ELSE Stress_finally(set_stop_event([s EXCEPT !.pc = "returned"]))

\* a monitor thread as _start_resource_monitoring starts it, at the test of its
\* while loop; call is the run() call that started it, stopped says the flag was
\* set while it lived, after_stop counts the samples it appended since then (0, 1,
\* 2 for more),
\* late says it appended after run() had returned normally
NewMonitor(call) ==
    [pc |-> "check", call |-> call, stopped |-> FALSE, after_stop |-> 0, late |-> FALSE]

\* run() from its first line to the end of _start_resource_monitoring
Stress_enter(s) ==
    LET s1 == [s EXCEPT !._is_running = TRUE, !._stop_event = FALSE,
                        !._resource_data = <<>>, !.calls = @ + 1]
    IN IF s.monitor_resources
       THEN [s1 EXCEPT !.threads = Append(@, NewMonitor(s1.calls)),
                       !._monitor_thread = Len(s.threads) + 1]
       ELSE s1

\* the StressBenchmark a caller has constructed with its own BenchmarkConfig and
\* called set_sql on; the constructor keeps the caller's object and does not
\* validate it
InitStress ==
    /\ strategy = "none"
    /\ config \in Configs
    /\ \E t \in {"sustained", "ramp_up"}, c \in 1..MaxStressConcurrency, cpu \in CpuCounts :
          stress = [NoStress EXCEPT !.test_type = t, !.concurrent_connections = c,
                                    !.cpu_count = cpu, !.pc = "idle"]
    /\ _sql_query = "SELECT 1"
    /\ _sql_params = "{}"
    /\ _pre_hooks = <<>>
    /\ _post_hooks = <<>>
    /\ hook_calls = NoHookCalls
    /\ formatter = NoFormatter
    /\ ParallelIdle
    /\ gen = NoGenerator
    /\ pool = NoPool
    /\ CollectorAbsent
    /\ LoopsIdle

\* StressBenchmark.run up to the loop of its load pattern: an unset query raises
\* before the try; else the flag is cleared, the sample log replaced, the monitor
\* started and the test type dispatched.  Sustained load first builds a
\* ParallelBenchmark on the caller's config: min with cpu_count, validate
Stress_run_begin ==
    /\ stress.pc = "idle"
    /\ LET entered == [Stress_enter(stress) EXCEPT !.before = config] IN
       IF _sql_query = ""
       THEN /\ stress' = [stress EXCEPT !.pc = "raised", !.raised = "QueryNotSet",
                                        !.calls = @ + 1]
            /\ UNCHANGED num_processes
       ELSE IF stress.test_type = "sustained"
       THEN IF validate_raises(config)
               THEN /\ stress' = Stress_finally([entered EXCEPT !.pc = "raised",
                                                                !.raised = "ValueError"])
                    /\ UNCHANGED num_processes
               ELSE /\ num_processes' = Min(stress.concurrent_connections,
                                            stress.cpu_count)
                    /\ stress' = [entered EXCEPT !.pc = "sustained"]
       ELSE IF stress.test_type = "ramp_up"
       THEN /\ stress' = [entered EXCEPT !.pc = "ramp"]
            /\ UNCHANGED num_processes
       ELSE /\ stress' = Stress_finally([entered EXCEPT !.pc = "raised",
                                                        !.raised = "UnknownTestType"])
            /\ UNCHANGED num_processes
    /\ UNCHANGED <<collVars, driverVars, schedVars, work_distribution, workers,
                   result_queue, all_executions, connVars, _sql_query, _sql_params,
                   _pre_hooks, _post_hooks, hook_calls, formatter>>

\* one pass of the loop of _run_sustained_load: a SingleThreadBenchmark on the
\* caller's config object (validated by the constructor), whose number_of_runs and
\* warmup_runs are then assigned; its one execution is appended and the
\* ConnectionManager of the pass closed, or an exception leaves run() from between
\* the creation of the manager and its close()
Sustained_iteration ==
    /\ stress.pc = "sustained"
    /\ stress.iterations < MaxSustained
    /\ LET created == [stress EXCEPT !.open_managers = @ + 1]
           leaves(exc) == Stress_finally([created EXCEPT !.pc = "raised", !.raised = exc])
       IN
       IF validate_raises(config)
          THEN /\ stress' = leaves("ValueError")
               /\ UNCHANGED config
          ELSE /\ config' = [config EXCEPT !.number_of_runs = 1, !.warmup_runs = 0]
               /\ \E out \in {"ok", "BenchmarkConnectionError"} :
                     IF out = "ok"
                     THEN stress' = [created EXCEPT !.iterations = @ + 1,
                                                   !.open_managers = @ - 1]
                     ELSE stress' = leaves(out)
    /\ UNCHANGED <<collVars, driverVars, strategy, concurrency, _is_running, pc, i,
                   run_id, ex, tasks, outcome, raisedBy, runs, executed, parVars,
                   connVars, _sql_query, _sql_params, _pre_hooks, _post_hooks, hook_calls, formatter>>

\* duration_seconds have passed: the loop ends, the result is built and returned
Sustained_done ==
    /\ stress.pc = "sustained"
    /\ stress' = Stress_stop_monitoring(stress)
    /\ UNCHANGED <<collVars, driverVars, schedVars, parVars, connVars, _sql_query,
                   _sql_params, _pre_hooks, _post_hooks, hook_calls, formatter>>

\* one pass of the for loop of _run_ramp_up: a ParallelBenchmark with
\* current_connections processes (min with cpu_count) on the caller's config
\* object, validated by the constructor; number_of_runs is assigned; run() divides
\* by num_processes in _calculate_work_distribution, then maps the work items
Ramp_step ==
    /\ stress.pc = "ramp"
    /\ stress.step < steps
    /\ LET current == current_connections(stress.step, stress.concurrent_connections)
           np == Min(current, stress.cpu_count)
           cfg == [config EXCEPT !.number_of_runs = current * 10]
       IN
       IF validate_raises(config)
       THEN /\ Stress_raise("ValueError")
            /\ UNCHANGED <<config, num_processes, work_distribution>>
       ELSE /\ num_processes' = np
            /\ config' = cfg
            /\ IF np = 0
                  THEN /\ Stress_raise("ZeroDivisionError")
                       /\ UNCHANGED work_distribution
                  ELSE /\ work_distribution' = _calculate_work_distribution(cfg, np)
                       /\ \E out \in {"ok", "worker_error"} :
                             IF out = "ok"
                             THEN stress' =
                                    [stress EXCEPT
                                       !.step = @ + 1,
                                       !.log = Append(@,
                                           [current_connections |-> current,
                                            num_processes |-> np,
                                            number_of_runs |-> cfg.number_of_runs,
                                            measured |->
                                               sum([k \in DOMAIN work_distribution' |->
                                                       work_distribution'[k].num_runs])])]
                             ELSE Stress_raise(out)
    /\ UNCHANGED <<collVars, driverVars, strategy, concurrency, _is_running, pc, i,
                   run_id, ex, tasks, outcome, raisedBy, runs, executed, workers,
                   result_queue, all_executions, connVars, _sql_query, _sql_params,
                   _pre_hooks, _post_hooks, hook_calls, formatter>>

\* the ten steps are over: the period at maximum load, then run() returns
Ramp_done ==
    /\ stress.pc = "ramp"
    /\ stress.step = steps
    /\ stress' = Stress_stop_monitoring(stress)
    /\ UNCHANGED <<collVars, driverVars, schedVars, parVars, connVars, _sql_query,
                   _sql_params, _pre_hooks, _post_hooks, hook_calls, formatter>>

NextStress ==
    \/ Stress_run_begin
    \/ Sustained_iteration
    \/ Sustained_done
    \/ Ramp_step
    \/ Ramp_done

SpecStress == InitStress /\ [][NextStress]_vars

\* ------------------------------------------- StressBenchmark with its monitor
\* the stress tests the monitor is checked on: a StressBenchmark with or without
\* monitoring, every dispatch of run() (a known load pattern, an unknown test
\* type), a query set or left unset, on a configuration validate accepts
InitMonitor ==
    /\ strategy = "none"
    /\ config = [number_of_runs |-> 1, warmup_runs |-> 0, retry_on_error |-> 0,
                 timeout |-> None, batch_size |-> None]
    /\ \E t \in {"sustained", "ramp_up", "burst"}, m \in BOOLEAN :
          stress = [NoStress EXCEPT !.test_type = t, !.concurrent_connections = 10,
                                    !.cpu_count = 4, !.pc = "idle",
                                    !.monitor_resources = m]
    /\ _sql_query \in {"SELECT 1", ""}
    /\ _sql_params = "{}"
    /\ _pre_hooks = <<>>
    /\ _post_hooks = <<>>
    /\ hook_calls = NoHookCalls
    /\ formatter = NoFormatter
    /\ ParallelIdle
    /\ gen = NoGenerator
    /\ pool = NoPool
    /\ CollectorAbsent
    /\ LoopsIdle

\* what no step of a monitor thread and no return of run() changes
MonitorFrame ==
    UNCHANGED <<collVars, driverVars, schedVars, parVars, connVars, _sql_query,
                _sql_params, _pre_hooks, _post_hooks, hook_calls, formatter>>

\* monitor(): the test of the while loop, after the thread's start or its sleep;
\* a thread that finds the flag clear goes on to take a sample (while the log has
\* room: the thread sleeps on otherwise)
Monitor_check(k) ==
    /\ stress.threads[k].pc = "check"
    /\ stress._stop_event \/ Len(stress._resource_data) < MaxSamples
    /\ stress' = [stress EXCEPT !.threads[k].pc =
                                   IF stress._stop_event THEN "exited" ELSE "sample"]
    /\ MonitorFrame

\* monitor(): the body of the while loop.  The sample is appended to the list
\* self._resource_data names at that moment and the thread sleeps; or psutil
\* raises, the exception is logged and the loop goes on
Monitor_sample(k) ==
    /\ stress.threads[k].pc = "sample"
    /\ \E sampled \in BOOLEAN :
          LET t == stress.threads[k] IN
          stress' =
             IF sampled
             THEN [stress EXCEPT
                     !._resource_data = Append(@, k),
                     !.threads[k] =
                        [t EXCEPT !.pc = "check",
                                  !.after_stop = IF t.stopped THEN Min(@ + 1, 2) ELSE @,
                                  !.late = @ \/ stress.pc = "returned"]]
             ELSE [stress EXCEPT !.threads[k].pc = "check"]
    /\ MonitorFrame

\* self._monitor_thread.join() has returned: the resource data are analysed and
\* run() returns through the finally block
Stress_join ==
    /\ stress.pc = "join"
    /\ stress.threads[stress._monitor_thread].pc = "exited"
    /\ stress' = Stress_finally([stress EXCEPT !.pc = "returned"])
    /\ MonitorFrame

\* the caller, after run() returned or raised, is about to call run() again on
\* the same StressBenchmark
Stress_run_again ==
    /\ stress.pc \in {"returned", "raised"}
    /\ stress.calls < MaxStressCalls
    /\ stress' = [stress EXCEPT !.pc = "idle", !.iterations = 0, !.step = 0,
                                !.log = <<>>, !.raised = "None"]
    /\ MonitorFrame

NextMonitor ==
    \/ NextStress
    \/ \E k \in DOMAIN stress.threads : Monitor_check(k)
    \/ \E k \in DOMAIN stress.threads : Monitor_sample(k)
    \/ Stress_join
    \/ Stress_run_again

SpecMonitor == InitMonitor /\ [][NextMonitor]_vars

\* ================================================= set_sql during and between runs
\* set_sql without its guard
set_sql_raises_never(running) == FALSE
\* BaseBenchmark.set_sql (and the set_sql of ParallelBenchmark and AsyncBenchmark):
\* if self._is_running: raise BenchmarkError
set_sql_raises(running) == running

\* params or {}
or_empty(params) == IF params \in {"None", "{}"} THEN "{}" ELSE params

\* run() or iter_results() has been entered and has not been left, by the position
\* of the scheduler
RunInProgress == pc # "idle"

\* a caller (a hook, the consumer of iter_results, another thread) calls
\* set_sql(sql, params) at any moment; inRun is whether a run was in progress
Call_set_sql ==
    /\ \E call \in {[sql |-> "SELECT 1", params |-> "None"],
                     [sql |-> "SELECT 2", params |-> "{a}"]} :
          LET sql == call.sql
              params == call.params
          IN
          IF set_sql_raises(_is_running)
          THEN /\ lastCall' = [op |-> "set_sql", raised |-> TRUE, inRun |-> RunInProgress]
               /\ UNCHANGED <<_sql_query, _sql_params, formatter>>
          ELSE /\ lastCall' = [op |-> "set_sql", raised |-> FALSE, inRun |-> RunInProgress,
                               sql |-> sql, params |-> params]
               /\ _sql_query' = sql
               /\ _sql_params' = or_empty(params)
    /\ UNCHANGED <<collVars, lifecycle, schedVars, parVars, connVars, _pre_hooks,
                   _post_hooks, hook_calls, stress, formatter>>

\* the Concurrent scheduler without retries: they do not change how run() is left
InitSetSql ==
    \/ InitSingle
    \/ InitAsync /\ config.retry_on_error = 0
    \/ InitParallel

NextSetSql == NextSingle \/ NextAsync \/ NextParallel \/ Call_set_sql

SpecSetSql == InitSetSql /\ [][NextSetSql]_vars

\* ============================================== the Sequential scheduler with hooks
\* add_pre_hook(hook), between runs; the hook will return or raise an Exception
Call_add_pre_hook ==
    /\ strategy = "sequential"
    /\ pc = "idle"
    /\ Len(_pre_hooks) < MaxHooks
    /\ \E hook \in {"ok", "raises"} : _pre_hooks' = Append(_pre_hooks, hook)
    /\ UNCHANGED <<collVars, driverVars, schedVars, parVars, connVars, _sql_query,
                   _sql_params, _post_hooks, hook_calls, stress, formatter>>

\* add_post_hook(hook), between runs
Call_add_post_hook ==
    /\ strategy = "sequential"
    /\ pc = "idle"
    /\ Len(_post_hooks) < MaxPostHooks
    /\ _post_hooks' = Append(_post_hooks, "ok")
    /\ UNCHANGED <<collVars, driverVars, schedVars, parVars, connVars, _sql_query,
                   _sql_params, _pre_hooks, hook_calls, stress, formatter>>

NextHooks == NextSingle \/ Call_add_pre_hook \/ Call_add_post_hook

SpecHooks == InitSingle /\ [][NextHooks]_vars

\* ========================================================= formatters/sql.py
\* placeholder names: an ordinary one and one that is also the name of a utility
\* the formatter adds to the template context
PlaceholderNames == {"id", "len"}

\* the utilities format() adds to the context: now, random, range, len
utilities == [n \in {"now", "random", "range", "len"} |-> "utility"]

\* the dictionaries over the placeholder names whose values are all v
DictsOf(v) == UNION {[D -> {v}] : D \in SUBSET PlaceholderNames}

\* the loop over self.generators: a generator is called unless its placeholder is
\* in params; one that raises is logged and yields None
generated_values(generators, params) ==
    [n \in {m \in DOMAIN generators : m \notin DOMAIN params} |->
        IF generators[n] = "returns" THEN "generated" ELSE "None"]

\* {**self.static_params, **generated_values, **params}, then update() with the
\* utilities: the context the template is rendered with
all_params(fm, params) ==
    utilities @@ params @@ generated_values(fm.generators, params) @@ fm.static_params

\* the formatter a benchmark has just constructed; the query's placeholders are
\* the placeholder names
InitFormat ==
    /\ strategy = "none"
    /\ config \in {cfg \in Configs : cfg.number_of_runs = 1 /\ cfg.warmup_runs = 0
                                      /\ cfg.retry_on_error = 0}
    /\ stress = NoStress
    /\ _sql_query = "SELECT 1"
    /\ _sql_params = "{}"
    /\ _pre_hooks = <<>>
    /\ _post_hooks = <<>>
    /\ hook_calls = NoHookCalls
    /\ formatter = NoFormatter
    /\ ParallelIdle
    /\ gen = NoGenerator
    /\ pool = NoPool
    /\ CollectorAbsent
    /\ LoopsIdle

\* what no call on the formatter changes
FormatFrame ==
    UNCHANGED <<collVars, driverVars, schedVars, parVars, connVars, _sql_query,
                _sql_params, _pre_hooks, _post_hooks, hook_calls, stress>>

\* add_generator(placeholder, generator) with a callable that returns a value or
\* raises
Call_add_generator ==
    /\ \E n \in PlaceholderNames, g \in {"returns", "raises"} :
          formatter' = [formatter EXCEPT !.generators = (n :> g) @@ @]
    /\ FormatFrame

\* add_static_param(name, value)
Call_add_static_param ==
    /\ \E n \in PlaceholderNames :
          formatter' = [formatter EXCEPT !.static_params = (n :> "static") @@ @]
    /\ FormatFrame

\* format(sql, params)
Call_format ==
    /\ \E params \in DictsOf("explicit") :
          formatter' =
             [formatter EXCEPT
                !.last = [op |-> "format", params |-> params,
                          generators |-> formatter.generators,
                          static_params |-> formatter.static_params,
                          invoked |-> DOMAIN generated_values(formatter.generators, params),
                          all_params |-> all_params(formatter, params)]]
    /\ FormatFrame

NextFormat == Call_add_generator \/ Call_add_static_param \/ Call_format

SpecFormat == InitFormat /\ [][NextFormat]_vars

\* the executions that are over: the call returned or was left by an exception
\* (Sequential), the coroutine's batch was gathered (Concurrent)
Finished ==
    IF strategy = "sequential"
    THEN IF ex.status \in {"done", "aborted"} THEN {ex} ELSE {}
    ELSE {tasks[k] : k \in {j \in DOMAIN tasks : tasks[j].status = "joined"}}

\* the answers of the database to the attempts made, and to the next one
Script(e) == IF e.db = "none" THEN e.hist ELSE Append(e.hist, e.db)

AllTransient(h) == \A k \in DOMAIN h : h[k] = "transient"

\* the last attempt made ended in an error of the query (not of the acquisition)
QueryFailure(e) ==
    e.hist # <<>> /\ e.hist[Len(e.hist)] \in {"transient", "timeout", "other"}

\* the records the current run has added for run_id rid
RecordsOf(rid) ==
    {k \in DOMAIN CurrentList :
        CurrentList[k].run_id = rid /\ CurrentList[k].start_time > mc._start_time}

\* the records the current run has added
ThisRun == {k \in DOMAIN CurrentList : CurrentList[k].start_time > mc._start_time}

\* C1: the result run() returns has successful_runs + failed_runs == total_runs
\* == number_of_runs, in the Sequential and in the Concurrent scheduler.
C1_ResultCountsRuns ==
    outcome = "returned" =>
        /\ result.successful_runs + result.failed_runs = result.total_runs
        /\ result.total_runs = config.number_of_runs

\* a measured attempt has started in the current run
MeasuredStarted ==
    \/ pc = "measured"
    \/ strategy = "sequential" /\ ex.status # "none" /\ ~ex.warmup
    \/ strategy = "concurrent" /\ \E k \in DOMAIN tasks : ~tasks[k].warmup

\* the measured executions completed whose record the collector should hold
MeasuredAdded ==
    executed.measured
        - Cardinality({k \in DOMAIN tasks : tasks[k].status = "done" /\ ~tasks[k].warmup})

\* C2: all warmup_runs warmup executions are completed before the first measured
\* attempt starts, and no warmup ever is in a collector's list or in a result: every
\* record carries a measured run_id and the current run has added one record per
\* measured execution completed, none for a warmup.
C2_WarmupFirstNeverRecorded ==
    /\ MeasuredStarted => executed.warmup = config.warmup_runs
    /\ \A l \in DOMAIN heap : \A k \in DOMAIN heap[l] :
           heap[l][k].run_id \in 0..(config.number_of_runs - 1)
    /\ Cardinality(ThisRun) = MeasuredAdded
    /\ outcome = "returned" =>
           /\ result.executions = mc.executions
           /\ Cardinality(ThisRun) = config.number_of_runs

C2_Witness ==
    /\ outcome = "returned"
    /\ config.warmup_runs >= 1
    /\ executed.warmup = config.warmup_runs
    /\ executed.measured = config.number_of_runs

\* C3: a measured execution whose first k attempts get a transient error
\* (1 <= k <= retry_on_error) and whose next attempt would succeed yields exactly one
\* record for its run_id, with success = true.
C3_RetryThenSuccess ==
    \A e \in Finished :
        (/\ ~e.warmup
         /\ \E k \in 1..config.retry_on_error :
               Script(e) = [j \in 1..(k + 1) |-> IF j <= k THEN "transient" ELSE "ok"])
        => /\ Cardinality(RecordsOf(e.run_id)) = 1
           /\ \A r \in RecordsOf(e.run_id) : CurrentList[r].success

\* C4: a measured execution all of whose attempts get a transient error makes exactly
\* retry_on_error + 1 attempts and yields exactly one record, with success = false
\* and the last error.
C4_RetriesExhausted ==
    \A e \in Finished :
        (~e.warmup /\ e.hist # <<>> /\ AllTransient(Script(e)))
        => /\ Len(e.hist) = config.retry_on_error + 1
           /\ Cardinality(RecordsOf(e.run_id)) = 1
           /\ \A r \in RecordsOf(e.run_id) :
                  ~CurrentList[r].success /\ CurrentList[r].error = "transient"

\* C5: after an attempt of a measured execution ended with a timeout no further
\* attempt is made, and exactly one record with success = false and a timeout error
\* text is recorded.
C5_TimeoutNotRetried ==
    \A e \in Finished :
        (~e.warmup /\ \E k \in DOMAIN e.hist : e.hist[k] = "timeout")
        => /\ \A k \in DOMAIN e.hist : e.hist[k] = "timeout" => k = Len(e.hist)
           /\ Cardinality(RecordsOf(e.run_id)) = 1
           /\ \A r \in RecordsOf(e.run_id) :
                  ~CurrentList[r].success /\ CurrentList[r].error = "Query timeout"

\* C6: after setup, a transient query error or a timeout of an individual execution
\* never makes run() raise.
C6_ExecutionFailureNotFatal ==
    outcome = "raised" => \A e \in Finished : ~(e.status = "aborted" /\ QueryFailure(e))

\* C7: a query error of a warmup attempt is never fatal: the warmup execution is
\* not left by an exception and run() does not raise.
C7_WarmupErrorNotFatal ==
    \A e \in Finished : (e.warmup /\ QueryFailure(e)) => (e.status # "aborted" /\ outcome # "raised")

\* C8: add_execution succeeds exactly while the collector is collecting (the last
\* of the calls start, end, reset was start); otherwise it raises and leaves every
\* list unchanged.  A successful call appends one record to the collector's list.
C8_AddOnlyWhileCollecting ==
    [][lastCall'.op = "add_execution" =>
          /\ lastCall'.raised <=> (lifecycle # "collecting")
          /\ lastCall'.raised => heap' = heap
          /\ ~lastCall'.raised =>
                Len(heap'[mc.executions]) = Len(heap[mc.executions]) + 1]_vars

C8_Witness ==
    /\ lastCall = [op |-> "add_execution", raised |-> TRUE]
    /\ lifecycle = "finalized"
    /\ Len(CurrentList) = 1

\* C9: get_result succeeds only on a finalized collector (started, then ended, not
\* collecting); on an idle or a collecting one it raises.
C9_GetResultOnlyFinalized ==
    lastCall.op = "get_result" => (lastCall.raised <=> lifecycle # "finalized")

\* C10: a result that get_result returned is frozen: whatever is called on the
\* collector later, len(result.executions) == result.total_runs == successful_runs
\* + failed_runs.
C10_ResultFrozen ==
    result # NoResult =>
        /\ Len(heap[result.executions]) = result.total_runs
        /\ result.total_runs = result.successful_runs + result.failed_runs

\* C11: get_current_stats can be called in every collector state and does not raise;
\* it leaves every list, the timestamps and the collecting flag as they were, and the
\* counts it returns satisfy successful_runs + failed_runs == total_runs == the number
\* of records added so far; is_collecting is the collector's flag.
C11_CurrentStatsReadOnly ==
    /\ [](ENABLED Call_get_current_stats)
    /\ [][lastCall'.op = "get_current_stats" =>
             /\ ~lastCall'.raised
             /\ heap' = heap /\ mc' = mc /\ result' = result
             /\ lastCall'.value.successful_runs + lastCall'.value.failed_runs
                    = lastCall'.value.total_runs
             /\ lastCall'.value.total_runs = Len(CurrentList)
             /\ lastCall'.value.is_collecting <=> (lifecycle = "collecting")]_vars

C11_Witness ==
    /\ lastCall.op = "get_current_stats"
    /\ lifecycle = "collecting"
    /\ lastCall.value.successful_runs = 1
    /\ lastCall.value.failed_runs = 1

RECURSIVE SumOf(_, _)
SumOf(seq, field) ==
    IF seq = <<>> THEN 0 ELSE Head(seq)[field] + SumOf(Tail(seq), field)

\* number_of_runs = 103 over 10 workers
Dist103 ==
    _calculate_work_distribution(
        [number_of_runs |-> 103, warmup_runs |-> 0, retry_on_error |-> 0,
         timeout |-> None, batch_size |-> None], 10)

\* C12: the work distribution has one item per worker; the first N mod W workers get
\* floor(N/W) + 1 runs and the others floor(N/W), the counts sum to N; the warmup
\* counts follow the same rule and sum to warmup_runs.  For N = 103 and W = 10 the
\* first 3 workers get 11 runs and the other 7 get 10.
C12_WorkDistribution ==
    work_distribution # <<>> =>
        LET N == config.number_of_runs
            Wu == config.warmup_runs
            W == num_processes
        IN
        /\ Len(work_distribution) = W
        /\ \A k \in 1..W :
              /\ work_distribution[k].num_runs
                    = (N \div W) + (IF k <= N % W THEN 1 ELSE 0)
              /\ work_distribution[k].num_warmup
                    = (Wu \div W) + (IF k <= Wu % W THEN 1 ELSE 0)
        /\ SumOf(work_distribution, "num_runs") = N
        /\ SumOf(work_distribution, "num_warmup") = Wu
        /\ Len(Dist103) = 10
        /\ \A k \in 1..10 : Dist103[k].num_runs = IF k <= 3 THEN 11 ELSE 10
        /\ SumOf(Dist103, "num_runs") = 103

C12_Witness ==
    /\ config.number_of_runs = 7
    /\ config.warmup_runs = 4
    /\ num_processes = 3
    /\ Len(work_distribution) = 3
    /\ work_distribution[1].num_runs = 3
    /\ work_distribution[3].num_runs = 2
    /\ work_distribution[1].num_warmup = 2
    /\ work_distribution[2].num_warmup = 1

\* the run_ids worker k owns
RangeOf(k) ==
    work_distribution[k].run_offset
        .. (work_distribution[k].run_offset + work_distribution[k].num_runs - 1)

RunIds(seq) == {seq[j].run_id : j \in DOMAIN seq}

Injective(seq) == \A a, b \in DOMAIN seq : seq[a].run_id = seq[b].run_id => a = b

\* run() (not iter_results()) has been called and every work item is done
MapFinished ==
    /\ strategy = "parallel"
    /\ workers # <<>>
    /\ \A k \in DOMAIN workers : workers[k].status \in {"returned", "raised"}
    /\ pc = "idle"

\* C13: the j-th record a worker produces carries run_id offset + j - 1, inside the
\* worker's range [offset, offset + its run count); the ranges of the workers are
\* pairwise disjoint and their union is [0, number_of_runs); records in the queue
\* or received carry distinct run_ids; the merged result run() returns holds every
\* run_id of 0..N-1 exactly once.
C13_RunIdRangesPartition ==
    workers # <<>> =>
        /\ \A k \in DOMAIN workers :
              /\ workers[k].done <= work_distribution[k].num_runs
              /\ \A j \in DOMAIN workers[k].executions :
                    workers[k].executions[j].run_id
                       = work_distribution[k].run_offset + j - 1
              /\ RunIds(workers[k].executions) \subseteq RangeOf(k)
        /\ \A k1, k2 \in DOMAIN workers : k1 # k2 => RangeOf(k1) \cap RangeOf(k2) = {}
        /\ UNION {RangeOf(k) : k \in DOMAIN workers} = 0..(config.number_of_runs - 1)
        /\ Injective(result_queue \o all_executions)
        /\ RunIds(result_queue \o all_executions) \subseteq 0..(config.number_of_runs - 1)
        /\ (MapFinished /\ outcome = "returned") =>
              /\ Injective(CurrentList)
              /\ RunIds(CurrentList) = 0..(config.number_of_runs - 1)
              /\ result.executions = mc.executions

C13_Witness ==
    /\ MapFinished
    /\ outcome = "returned"
    /\ num_processes = 2
    /\ config.number_of_runs = 2
    /\ workers[1].executions # <<>>
    /\ workers[2].executions # <<>>
    /\ workers[2].executions[1].run_id = 1
    /\ Len(CurrentList) = 2

\* C14: ParallelBenchmark.run(), when no connection and no query fails in any worker,
\* returns a result with exactly number_of_runs records, whatever the worker count.
C14_ParallelProducesN ==
    (MapFinished /\ \A k \in DOMAIN workers :
                        workers[k].exc \notin {"ConnectionError", "RuntimeError"})
    => /\ outcome = "returned"
       /\ result.total_runs = config.number_of_runs

\* iter_results() (not run()) has returned
IterReturned ==
    /\ strategy = "parallel"
    /\ workers # <<>>
    /\ ~MapFinished
    /\ pc = "idle"

\* C19: iter_results, with workers that crash or fail but do not block, leaves its
\* collection loop and returns; by then no worker is alive and the result is built
\* from exactly the records received.
C19_IterResultsEndsOnCrash ==
    /\ (pc = "collecting") ~> (pc = "idle" /\ outcome = "returned")
    /\ [](IterReturned =>
            /\ outcome = "returned"
            /\ \A k \in DOMAIN workers : ~is_alive(workers[k])
            /\ CurrentList = all_executions
            /\ result.total_runs = Len(all_executions)
            /\ result.executions = mc.executions)

C19_Witness ==
    /\ IterReturned
    /\ outcome = "returned"
    /\ \E k \in DOMAIN workers : workers[k].status = "crashed"
    /\ result.total_runs = 1
    /\ config.number_of_runs = 2

\* C20: iter_results returns also when a worker blocks for ever.
C20_IterResultsEndsOnHang ==
    (\E k \in DOMAIN workers : workers[k].status = "hung") ~> (pc = "idle")

\* the with statement has ended for the caller
WithExited == gen.exit # "none"

\* C15: when a with statement over get_connection has ended, however it ended, no
\* connection is checked out of the pool, and every connection taken has been put
\* back exactly once.
C15_ConnectionReleased ==
    WithExited =>
        /\ pool.out = {}
        /\ \A c \in 1..pool.taken :
              Cardinality({j \in DOMAIN pool.returned : pool.returned[j] = c}) = 1

\* C16: one with statement makes at most retry_attempts acquisition attempts; it has
\* slept once after each failed attempt but the last one (so never more than
\* retry_attempts - 1 times); a pooled connection is yielded only after its health
\* check succeeded; and when every attempt has failed the statement ends with
\* ConnectionError without a connection ever yielded.
C16_AcquisitionRetries ==
    /\ gen.attempt <= retry_attempts
    /\ gen.sleeps = [j \in 1..Min(gen.attempt, retry_attempts - 1) |-> j - 1]
    /\ \A j \in DOMAIN gen.yields :
          gen.kind = "pool" => gen.yields[j] \in pool.checked
    /\ (gen.pc = "yielded" /\ gen.kind = "pool") => gen.conn \in pool.checked
    /\ (WithExited /\ gen.yields = <<>>) =>
          /\ gen.exit = "ConnectionError"
          /\ gen.attempt = retry_attempts
    /\ (gen.exit = "ConnectionError" /\ ~gen.thrown) => gen.yields = <<>>

C16_Witness ==
    /\ gen.kind = "pool"
    /\ gen.exit = "ConnectionError"
    /\ gen.yields = <<>>
    /\ gen.sleeps = <<0, 1>>
    /\ pool.taken >= 1

\* C17: a scheduler constructor given number_of_runs < 1, warmup_runs < 0, a timeout
\* that is set and <= 0, retry_on_error < 0 or a batch_size that is set and <= 0
\* raises (ValueError); it has then created no collector, touched no connection
\* and executed nothing.  Given any other configuration it does not raise.
C17_InvalidConfigRejected ==
    pc # "unconstructed" =>
        /\ (\/ config.number_of_runs < 1
            \/ config.warmup_runs < 0
            \/ config.timeout \in {-2, 0}
            \/ config.retry_on_error < 0
            \/ config.batch_size \in {-2, 0})
           <=> (outcome = "raised" /\ raisedBy = "ValueError" /\ pc = "failed")
        /\ outcome = "raised" =>
              /\ mc = NoCollector /\ heap = <<>>
              /\ gen = NoGenerator /\ pool = NoPool
              /\ executed = NoneExecuted /\ workers = <<>> /\ tasks = <<>>

C17_Witness ==
    /\ pc = "failed"
    /\ outcome = "raised"
    /\ config.number_of_runs >= 1
    /\ config.warmup_runs >= 0
    /\ config.retry_on_error >= 0
    /\ config.timeout = 0
    /\ config.batch_size = None

\* the coroutines of measured executions that have started and not completed
InFlight == {k \in DOMAIN tasks : tasks[k].status = "running" /\ ~tasks[k].warmup}

\* C18: in the Concurrent scheduler at most `concurrency` measured executions are in
\* flight, all of the batch that starts at batch_start; a coroutine starts only when
\* every coroutine of the batch before has completed and was gathered; the k-th
\* coroutine of a batch has run_id batch_start + k - 1, the collector holds exactly
\* the records of the batches before, and its j-th record has run_id j - 1.
C18_BatchesOrdered ==
    /\ [](/\ Cardinality(InFlight) <= concurrency
          /\ Len(tasks) <= concurrency
          /\ \A j \in DOMAIN CurrentList : CurrentList[j].run_id = j - 1
          /\ \A k \in DOMAIN tasks :
                (~tasks[k].warmup /\ tasks[k].status # "joined") =>
                    /\ tasks[k].run_id = run_id + k - 1
                    /\ Len(CurrentList) = run_id
                    /\ tasks[k].run_id < config.number_of_runs
          /\ (strategy = "concurrent" /\ outcome = "returned") =>
                Len(CurrentList) = config.number_of_runs)
    /\ [][(\E k \in DOMAIN tasks' :
               /\ tasks'[k].status = "running"
               /\ tasks'[k].hist = <<>>
               /\ (k \notin DOMAIN tasks \/ tasks[k] # tasks'[k]))
           => \A k \in DOMAIN tasks : tasks[k].status = "joined"]_vars

C18_Witness ==
    /\ strategy = "concurrent"
    /\ concurrency = 1
    /\ config.number_of_runs = 2
    /\ InFlight = {1}
    /\ tasks[1].run_id = 1
    /\ Len(CurrentList) = 1

\* C21: every QueryExecution record has its error set if and only if its success
\* flag is false, in every scheduler, also when the query succeeded only after
\* failed attempts.
C21_ErrorIffFailed ==
    \A l \in DOMAIN heap : \A k \in DOMAIN heap[l] :
        (heap[l][k].error # "None") <=> ~heap[l][k].success

\* the list of the collector of SpecStats, and whether all its records failed
StatList == heap[mc.executions]
AllFailed == \A k \in DOMAIN StatList : ~StatList[k].success

\* C22: get_result() on a finalized collector whose records all failed raises
\* nothing and returns a result with total_runs == failed_runs, successful_runs
\* == 0, every scalar statistic and the throughput 0, empty percentiles and an
\* empty latency distribution; the result keeps the failed records and their
\* error texts.
C22_AllFailedResult ==
    (lastCall.op = "get_result" /\ lifecycle = "finalized" /\ AllFailed) =>
        /\ ~lastCall.raised
        /\ result.total_runs = Len(StatList)
        /\ result.failed_runs = result.total_runs
        /\ result.successful_runs = 0
        /\ result.min_time_ms = 0
        /\ result.max_time_ms = 0
        /\ result.avg_time_ms = Zero
        /\ result.median_time_ms = Zero
        /\ result.stddev_time_ms = Sqrt(Zero)
        /\ result.cv = Sqrt(Zero)
        /\ result.throughput_qps = Zero
        /\ DOMAIN result.percentiles = {}
        /\ DOMAIN result.latency_distribution = {}
        /\ heap[result.executions] = StatList
        /\ \A k \in DOMAIN StatList : heap[result.executions][k].error = "error"

C22_Witness ==
    /\ lastCall.op = "get_result"
    /\ lifecycle = "finalized"
    /\ Len(StatList) = 2
    /\ AllFailed
    /\ result.failed_runs = 2
    /\ result.end_time > result.start_time

\* the successful records of the collector's list, and ten durations out of order
Successful == {k \in DOMAIN StatList : StatList[k].success}
Ten == <<10, 1, 50, 5, 1000, 100, 500, 0, 5000, 7>>

\* C23: for a result with n >= 1 successful durations and every p in {25, 50, 75,
\* 90, 95, 99, 99.9}, the percentile reported is the element at 0-based index
\* min(floor(n * p / 100), n - 1) of the successful durations in ascending order:
\* a duration of a successful execution, with at most that many successful
\* durations below it and more than that many not above it; failed executions do
\* not enter.  For n = 10, p50 is the element at position 5 (the sixth smallest).
C23_PercentileNearestRank ==
    (lastCall.op = "get_result" /\ Successful # {}) =>
        LET n == Cardinality(Successful) IN
        /\ DOMAIN result.percentiles = {"p25", "p50", "p75", "p90", "p95", "p99", "p99.9"}
        /\ \A j \in DOMAIN Percentiles :
              LET v == result.percentiles[Percentiles[j].key]
                  f == (n * Percentiles[j].p) \div 1000
                  idx == IF f < n - 1 THEN f ELSE n - 1
              IN
              /\ \E k \in Successful : StatList[k].duration_ms = v
              /\ Cardinality({k \in Successful : StatList[k].duration_ms < v}) <= idx
              /\ Cardinality({k \in Successful : StatList[k].duration_ms <= v}) > idx
        /\ _calculate_percentiles(Ten)["p50"] = 50
        /\ _calculate_percentiles(Ten)["p25"] = 5
        /\ _calculate_percentiles(Ten)["p99.9"] = 5000

C23_Witness ==
    /\ lastCall.op = "get_result"
    /\ Len(StatList) = 3
    /\ StatList[1].success /\ StatList[1].duration_ms = 50
    /\ ~StatList[2].success /\ StatList[2].duration_ms = 10
    /\ StatList[3].success /\ StatList[3].duration_ms = 5
    /\ result.percentiles["p25"] = 5
    /\ result.percentiles["p50"] = 50
    /\ result.percentiles["p99.9"] = 50

\* C24: the throughput_qps of a result equals successful_runs divided by the
\* seconds between its start_time and its end_time, and is 0 when that elapsed
\* time is 0; 50 successful runs over 5 seconds give 10.
C24_Throughput ==
    lastCall.op = "get_result" =>
        LET elapsed == result.end_time - result.start_time
            fifty == [result EXCEPT !.successful_runs = 50, !.start_time = 2,
                                    !.end_time = 7]
        IN
        /\ IF elapsed = 0
           THEN result.throughput_qps.num = 0
           ELSE result.throughput_qps.num * elapsed
                    = result.successful_runs * result.throughput_qps.den
        /\ Successful # {} =>
              LET q == _calculate_statistics(fifty, heap).throughput_qps
              IN q.num = 10 * q.den

\* the nine buckets as half-open intervals of milliseconds; the last has no upper end
BucketBounds ==
    <<[key |-> "<1ms", lo |-> 0, hi |-> 1], [key |-> "1-5ms", lo |-> 1, hi |-> 5],
      [key |-> "5-10ms", lo |-> 5, hi |-> 10], [key |-> "10-50ms", lo |-> 10, hi |-> 50],
      [key |-> "50-100ms", lo |-> 50, hi |-> 100],
      [key |-> "100-500ms", lo |-> 100, hi |-> 500],
      [key |-> "500ms-1s", lo |-> 500, hi |-> 1000],
      [key |-> "1s-5s", lo |-> 1000, hi |-> 5000],
      [key |-> ">5s", lo |-> 5000, hi |-> None]>>

RECURSIVE TotalOver(_, _)
TotalOver(f, S) ==
    IF S = {} THEN 0
    ELSE LET x == CHOOSE y \in S : TRUE IN f[x] + TotalOver(f, S \ {x})

\* C25: the latency distribution of a result with successful executions has the
\* nine buckets; the count of a bucket is the number of successful durations d
\* with lo <= d < hi (d >= 5000 for the last), so that every successful duration is
\* counted in exactly one bucket; the counts sum to successful_runs and failed
\* executions are not counted.
C25_LatencyBuckets ==
    lastCall.op = "get_result" =>
        LET dist == result.latency_distribution IN
        /\ TotalOver(dist, DOMAIN dist) = result.successful_runs
        /\ Successful # {} =>
              /\ DOMAIN dist = {BucketBounds[j].key : j \in DOMAIN BucketBounds}
              /\ \A j \in DOMAIN BucketBounds :
                    dist[BucketBounds[j].key] =
                        Cardinality({k \in Successful :
                            /\ StatList[k].duration_ms >= BucketBounds[j].lo
                            /\ \/ BucketBounds[j].hi = None
                               \/ StatList[k].duration_ms < BucketBounds[j].hi})

C25_Witness ==
    /\ lastCall.op = "get_result"
    /\ Len(StatList) = 3
    /\ StatList[1].success /\ StatList[1].duration_ms = 5
    /\ ~StatList[2].success /\ StatList[2].duration_ms = 10
    /\ StatList[3].success /\ StatList[3].duration_ms = 5000
    /\ result.latency_distribution["5-10ms"] = 1
    /\ result.latency_distribution["10-50ms"] = 0
    /\ result.latency_distribution[">5s"] = 1

C27_CallerConfigUntouched ==
    stress.pc = "returned" =>
        /\ config.number_of_runs = stress.before.number_of_runs
        /\ config.warmup_runs = stress.before.warmup_runs

\* round(x / 10), halves up
RoundTenth(x) == (x + 5) \div 10

\* C30: the ramp-up performs exactly 10 steps for every max_concurrency >= 1: it
\* does not end before the tenth step unless a step's workers failed; step i
\* (0..9) runs Process-Parallel with round((i + 1) / 10 * max_concurrency)
\* processes and exactly 10 times that many measured runs; the concurrency never
\* decreases and is max_concurrency at the last step.
C30_RampUpSteps ==
    stress.test_type = "ramp_up" =>
        LET log == stress.log
            mx == stress.concurrent_connections
        IN
        /\ stress.pc \in {"returned", "raised"} =>
              Len(log) = steps \/ stress.raised = "worker_error"
        /\ \A k \in DOMAIN log :
              /\ log[k].num_processes = RoundTenth(k * mx)
              /\ log[k].measured = 10 * log[k].num_processes
        /\ \A k \in DOMAIN log : k > 1 => log[k - 1].num_processes <= log[k].num_processes
        /\ Len(log) = steps => log[steps].num_processes = mx

HookRaised == \E k \in DOMAIN hook_calls.hooks : hook_calls.hooks[k] = "raises"

\* C29: a hook that raises never affects the benchmark: its exception never leaves
\* run(); every hook of the list is called, in order, also those after the one
\* that raised; the execution proceeds to its first attempt; and the success and
\* error recorded for it are those the database's answers give, as without hooks:
\* success exactly when the last attempt succeeded, error unset exactly then.
C29_HookFailureContained ==
    /\ raisedBy # "HookError"
    /\ hook_calls.called = [k \in DOMAIN hook_calls.hooks |-> k]
    /\ (HookRaised /\ ex.status = "aborted") => ex.hist # <<>>
    /\ (HookRaised /\ ex.status = "done") =>
          /\ ex.hist # <<>>
          /\ ex.success <=> ex.hist[Len(ex.hist)] = "ok"
          /\ (ex.error = "None") <=> ex.success
          /\ ~ex.warmup =>
                /\ CurrentList # <<>>
                /\ CurrentList[Len(CurrentList)].success = ex.success
                /\ CurrentList[Len(CurrentList)].error = ex.error

\* the first of two hooks raised, the second was called, and the measured execution
\* was recorded as successful
C29_Witness ==
    /\ hook_calls.hooks = <<"raises", "ok">>
    /\ hook_calls.called = <<1, 2>>
    /\ ex.status = "done"
    /\ ~ex.warmup
    /\ CurrentList[Len(CurrentList)].success

\* the monitor threads that are alive and appending: about to append a sample, or
\* at the test of their loop with the flag clear
AliveMonitors ==
    {k \in DOMAIN stress.threads :
        \/ stress.threads[k].pc = "sample"
        \/ stress.threads[k].pc = "check" /\ ~stress._stop_event}

\* C31: in StressBenchmark.run() with monitoring enabled the monitor of this call
\* is started before the first load execution; the stop flag is set on every exit
\* of the try block (normal return, unknown test type, exception in the load
\* phase); after the flag is set a monitor appends at most one more sample; and
\* when run() has returned normally its monitor thread has terminated and no
\* sample is appended any more.
C31_MonitorStartedAndStopped ==
    /\ (stress.monitor_resources /\ stress.pc \in {"sustained", "ramp", "join"}) =>
          /\ stress._monitor_thread # 0
          /\ stress.threads[stress._monitor_thread].call = stress.calls
    /\ (stress.pc \in {"returned", "raised"} /\ stress.raised # "QueryNotSet") =>
          stress._stop_event
    /\ \A k \in DOMAIN stress.threads :
          /\ stress.threads[k].after_stop <= 1
          /\ ~stress.threads[k].late
    /\ (stress.monitor_resources /\ stress.pc = "returned") =>
          stress.threads[stress._monitor_thread].pc = "exited"

\* C40: across the run() calls on one StressBenchmark at most one monitor thread
\* is alive at any time: a new run never leaves the monitor of an earlier run,
\* one that raised included, running beside its own.
C40_OneMonitorAlive == Cardinality(AliveMonitors) <= 1

\* C39: for every configured concurrency >= 1, values below 10 included, every
\* ramp-up step runs with at least one worker process, so no step divides by a
\* worker count of zero, and the ramp-up completes its 10 steps unless the
\* caller's configuration is rejected or a step's workers fail.
C39_RampUpWorkersPositive ==
    (stress.test_type = "ramp_up" /\ stress.concurrent_connections >= 1) =>
        /\ num_processes >= 1
        /\ \A k \in DOMAIN stress.log : stress.log[k].current_connections >= 1
        /\ stress.raised # "ZeroDivisionError"
        /\ stress.pc = "returned" => Len(stress.log) = steps
        /\ stress.pc = "raised" => stress.raised \in {"ValueError", "worker_error"}

\* C34: when no worker crashes and every worker has put all its records on the
\* queue, iter_results has yielded each of them exactly once when it returns,
\* number_of_runs records in total with none left on the queue, whatever the
\* interleaving of the parent's timeout, its liveness check and the workers' puts
\* and exits.
C34_IterResultsLosesNoRecord ==
    (/\ IterReturned
     /\ \A k \in DOMAIN workers :
           /\ workers[k].status = "exited"
           /\ workers[k].done = work_distribution[k].num_runs)
    => /\ Len(all_executions) = config.number_of_runs
       /\ result_queue = <<>>
       /\ Injective(all_executions)

\* C32: every ConnectionManager a scheduler creates for a run is closed when that
\* run is over, however it ended: a Process-Parallel worker that has returned,
\* raised or exited holds no open manager, and when StressBenchmark.run() has
\* returned or raised no manager of its sustained loop is open.
C32_ManagersClosed ==
    /\ \A k \in DOMAIN workers :
          workers[k].status \in {"returned", "raised", "exited"} =>
             workers[k].manager \in {"none", "closed"}
    /\ stress.pc \in {"returned", "raised"} => stress.open_managers = 0

\* C33: for every placeholder name format resolves the value with priority
\* explicit parameter > generator-provided value > static parameter: a name in
\* params gets the params value and its generator is not invoked; otherwise it
\* gets the value of its generator if one is registered (None if it raised);
\* otherwise the static value; nothing else overrides an explicit parameter.
C33_FormatPriority ==
    formatter.last.op = "format" =>
        LET call == formatter.last IN
        \A n \in PlaceholderNames :
            IF n \in DOMAIN call.params
            THEN /\ call.all_params[n] = call.params[n]
                 /\ n \notin call.invoked
            ELSE IF n \in DOMAIN call.generators
            THEN /\ n \in call.invoked
                 /\ n \in DOMAIN utilities
                    \/ call.all_params[n] = IF call.generators[n] = "returns"
                                            THEN "generated" ELSE "None"
            ELSE n \in DOMAIN call.static_params =>
                    \/ n \in DOMAIN utilities
                    \/ call.all_params[n] = call.static_params[n]

\* C35: the collector's lifecycle is one-way idle -> collecting -> finalized:
\* start() takes effect only on an idle collector and end() only on a collecting
\* one; on any other collector the call leaves the state and the recorded start
\* and end timestamps as they were, so that only reset() takes a finalized
\* collector back.
C35_LifecycleOneWay ==
    /\ (lastCall.op = "start" /\ state_of(lastCall.on) # "idle") => mc = lastCall.on
    /\ (lastCall.op = "end" /\ state_of(lastCall.on) # "collecting") => mc = lastCall.on
    /\ (lastCall.op = "start" /\ state_of(lastCall.on) = "idle") =>
          state_of(mc) = "collecting"
    /\ (lastCall.op = "end" /\ state_of(lastCall.on) = "collecting") =>
          /\ state_of(mc) = "finalized"
          /\ mc._start_time = lastCall.on._start_time

\* C36: the time window of a returned result covers its executions:
\* result.start_time is not later than the start of any recorded execution and
\* result.end_time is not earlier than the end of any.
C36_WindowCoversExecutions ==
    (outcome = "returned" /\ result # NoResult) =>
        \A k \in DOMAIN heap[result.executions] :
            /\ result.start_time <= heap[result.executions][k].start_time
            /\ heap[result.executions][k].end_time <= result.end_time

\* C37: an exception raised by the body of a with statement over get_connection
\* leaves the statement as that same exception ("error"): once it has been raised,
\* the generator has not slept for it, has made no further acquisition attempt and
\* has yielded no second connection.
C37_BodyExceptionReachesCaller ==
    gen.thrown =>
        /\ gen.exit = "error"
        /\ Len(gen.yields) = 1
        /\ gen.attempt = Len(gen.sleeps)
        /\ gen.pc = "done"

\* C38: in the Sequential scheduler, while run() is in progress, an execution that
\* has completed has called every registered pre-execution hook exactly once, in
\* registration order, before its first attempt, and every registered
\* post-execution hook exactly once, in registration order, after its last attempt
\* (hooks are registered between runs, so the lists are those of the execution).
C38_HooksAroundEachExecution ==
    (strategy = "sequential" /\ pc # "idle" /\ ex.status = "done") =>
        /\ hook_calls.hooks = _pre_hooks
        /\ hook_calls.called = [k \in DOMAIN _pre_hooks |-> k]
        /\ hook_calls.post_called = [k \in DOMAIN _post_hooks |-> k]

====
